---- MODULE Spec2Model ----
(***************************************************************************)
(* A model of WhipperSnapPy's data layer: the ASCII mesh readers           *)
(* (geometry/mesh_io.py), the input resolvers (geometry/inputs.py), the    *)
(* colormap primitives (utils/colormap.py) and the geometry preparer       *)
(* (geometry/prepare.py).                                                  *)
(*                                                                         *)
(* Every function of the library is a pure function of its arguments (and  *)
(* of the file a path names), so each is an operator here, computed the    *)
(* way the code computes it, and each action is one call of a public       *)
(* function by a client: it draws the arguments from a bounded set,        *)
(* records them in `input`, and records what the call returned or raised   *)
(* in `output`.  Arrays the caller owns and the callee may write are kept  *)
(* in `input` before the call and in `output.after` after it.              *)
(*                                                                         *)
(* Conventions.                                                            *)
(*   - A text file is a sequence of lines, a line is the sequence of its   *)
(*     whitespace-separated tokens (what str.split() returns), a token is  *)
(*     a string.  int() and float() are the partial tables IntTab and      *)
(*     FloatTab; a token outside the table makes the conversion raise.     *)
(*   - A real number is an exact fraction <<n, d>> with d > 0 in lowest    *)
(*     terms; NaN is <<0, 0>> and every comparison with it is false.       *)
(*     float32/float64 rounding is not modelled.                           *)
(*   - An ndarray is [shape |-> <<...>>, data |-> <<...>>]: an (n, k)      *)
(*     table of vertices, faces or colors holds its n rows, a per-vertex   *)
(*     array holds its elements flat, in row order.                        *)
(*   - An outcome is [kind |-> "ok", ...] or                               *)
(*     [kind |-> "raise", exc |-> <exception class>, msg |-> <key words>]. *)
(***************************************************************************)
EXTENDS Integers, Sequences, FiniteSets, TLC

VARIABLES pc, op, input, output, numpy, viewer, snap

vars == <<pc, op, input, output, numpy, viewer, snap>>

(***************************************************************************)
(* Bounds of the explored inputs.                                          *)
(***************************************************************************)
\* Largest vertex count a mesh file declares or a mesh array holds.
MaxVerts == 2
\* Largest face count a mesh file declares.
MaxFaces == 2

(***************************************************************************)
(* Generic helpers.                                                        *)
(***************************************************************************)
\* An optional value is a sequence of length 0 (None) or 1.
None == <<>>
Some(x) == <<x>>

Raise(exc, msg) == [kind |-> "raise", exc |-> exc, msg |-> msg]

Min(S) == CHOOSE x \in S : \A y \in S : x <= y
Max(S) == CHOOSE x \in S : \A y \in S : x >= y

Range(s) == {s[i] : i \in 1..Len(s)}

\* s[a..b] as Python's s[a-1:b] (1-based here, empty when b < a).
Slice(s, a, b) == IF b < a THEN <<>> ELSE SubSeq(s, a, b)

\* All sequences over S with a length in lo..hi.
SeqsOf(S, lo, hi) == UNION {[1..n -> S] : n \in lo..hi}

(***************************************************************************)
(* Floating-point numbers, as exact fractions.                             *)
(***************************************************************************)
NaN == <<0, 0>>

IsNaN(x) == x = NaN

RECURSIVE Gcd(_, _)
Gcd(a, b) == IF b = 0 THEN a ELSE Gcd(b, a % b)

IntAbs(i) == IF i < 0 THEN -i ELSE i

\* n / d in lowest terms with a positive denominator (d # 0).
Frac(n, d) ==
    LET g == Gcd(IntAbs(n), IntAbs(d))
        s == IF d < 0 THEN -1 ELSE 1
    IN  <<(s * n) \div g, (s * d) \div g>>

\* The integer i as a float.
Num(i) == <<i, 1>>

Add(x, y) ==
    IF IsNaN(x) \/ IsNaN(y) THEN NaN
    ELSE Frac(x[1] * y[2] + y[1] * x[2], x[2] * y[2])

Neg(x) == IF IsNaN(x) THEN NaN ELSE <<-x[1], x[2]>>

Sub(x, y) == Add(x, Neg(y))

Mul(x, y) ==
    IF IsNaN(x) \/ IsNaN(y) THEN NaN ELSE Frac(x[1] * y[1], x[2] * y[2])

\* x / y; 0 / 0 is NaN.  (A non-zero number over zero is an infinity, which
\* no computation of the model produces: it is held as <<1, 0>> or <<-1, 0>>.)
Div(x, y) ==
    IF IsNaN(x) \/ IsNaN(y) THEN NaN
    ELSE IF y[1] = 0 THEN (IF x[1] = 0 THEN NaN
                           ELSE <<IF x[1] > 0 THEN 1 ELSE -1, 0>>)
    ELSE Frac(x[1] * y[2], x[2] * y[1])

\* np.abs and np.sign.
Abs(x) == IF IsNaN(x) THEN NaN ELSE <<IntAbs(x[1]), x[2]>>

Sign(x) ==
    IF IsNaN(x) THEN NaN
    ELSE IF x[1] > 0 THEN Num(1) ELSE IF x[1] < 0 THEN Num(-1) ELSE Num(0)

\* Comparisons: false when either side is NaN.
Lt(x, y) == ~IsNaN(x) /\ ~IsNaN(y) /\ x[1] * y[2] < y[1] * x[2]
Ge(x, y) == ~IsNaN(x) /\ ~IsNaN(y) /\ x[1] * y[2] >= y[1] * x[2]
Gt(x, y) == Lt(y, x)

(***************************************************************************)
(* Tokens: int(), float(), str.upper(), str.lower().                       *)
(***************************************************************************)
IntTab ==
    ("-1" :> -1) @@ ("0" :> 0) @@ ("1" :> 1) @@ ("2" :> 2) @@ ("3" :> 3)
    @@ ("4" :> 4) @@ ("5" :> 5) @@ ("6" :> 6) @@ ("7" :> 7) @@ ("8" :> 8)
    @@ ("9" :> 9)

IsInt(t) == t \in DOMAIN IntTab

\* float() accepts every integer token and the decimal tokens of the table.
FloatTab ==
    [t \in DOMAIN IntTab |-> <<IntTab[t], 1>>] @@ ("0.5" :> <<1, 2>>)

IsFloat(t) == t \in DOMAIN FloatTab

UpperTab ==
    ("off" :> "OFF") @@ ("Off" :> "OFF") @@ ("noff" :> "NOFF")
    @@ ("ascii" :> "ASCII") @@ ("binary" :> "BINARY")
    @@ ("dataset" :> "DATASET") @@ ("polydata" :> "POLYDATA")
    @@ ("points" :> "POINTS") @@ ("polygons" :> "POLYGONS")
    @@ ("float" :> "FLOAT")

Upper(t) == IF t \in DOMAIN UpperTab THEN UpperTab[t] ELSE t

(***************************************************************************)
(* geometry/mesh_io.py                                                     *)
(***************************************************************************)
\* Stripped, non-empty, non-comment lines.  A blank line is <<>>, a comment
\* line is one whose first token is "#".
non_empty_lines(file) ==
    SelectSeq(file, LAMBDA line : line # <<>> /\ line[1] # "#")

\* numpy's `row[:] = list` for a row of three: a list of three is stored, a
\* list of one is broadcast, any other length raises ValueError.
AssignRow3(vals) ==
    IF Len(vals) = 3 THEN Some(vals)
    ELSE IF Len(vals) = 1 THEN Some(<<vals[1], vals[1], vals[1]>>)
    ELSE None

\* The value 2^32 + x that a negative x becomes when it is cast to uint32,
\* held here as U32Wrap + x (2^32 itself exceeds the integers of TLC;
\* like 2^32 it lies above every vertex count).
U32Wrap == 1073741824

AsUint32(x) == IF x < 0 THEN U32Wrap + x ELSE x

\* `[int(tokens[k]) for k in range(1, 4)]`
IntRow(tokens) == [k \in 1..3 |-> IntTab[tokens[k + 1]]]

\* Storing Python integers in a uint32 array: numpy 1 wraps a negative one
\* (with a DeprecationWarning from 1.24 on), numpy 2 raises OverflowError.
StoresAsUint32(ints) == numpy = 1 \/ \A k \in 1..Len(ints) : ints[k] >= 0

\* The entries of an (M, 3) face array, as one set.
FaceEntries(faces) == UNION {Range(faces.data[j]) : j \in 1..Len(faces.data)}

\* `int(faces.max()) >= n_verts or int(faces.min()) < 0`
OutOfRange(faces, n_verts) ==
    \/ Max(FaceEntries(faces)) >= n_verts
    \/ Min(FaceEntries(faces)) < 0

\* One vertex line of an OFF file: None when the code raises on it.
OffVertex(line) ==
    LET coords == Slice(line, 1, IF Len(line) < 3 THEN Len(line) ELSE 3)
    IN  IF \E k \in 1..Len(coords) : ~IsFloat(coords[k]) THEN None
        ELSE AssignRow3([k \in 1..Len(coords) |-> FloatTab[coords[k]]])

\* What the face loop of read_off / read_ply_ascii does with one face line:
\* "" when it stores the face, otherwise the key words of the error raised.
FaceLineError(tokens) ==
    IF ~IsInt(tokens[1]) THEN "parse face"
    ELSE IF IntTab[tokens[1]] # 3 THEN "triangles"
    ELSE IF Len(tokens) < 4 \/ \E k \in 2..4 : ~IsInt(tokens[k])
         THEN "parse face indices"
    ELSE IF ~StoresAsUint32(IntRow(tokens)) THEN "out of bounds for uint32"
    ELSE ""

\* The exception the face loop raises for FaceLineError's key words: the
\* parse errors are re-raised as ValueError, the OverflowError of the store
\* is not an exception the loop catches.
FaceLineRaise(tokens) ==
    Raise(IF FaceLineError(tokens) = "out of bounds for uint32"
             THEN "OverflowError" ELSE "ValueError",
          FaceLineError(tokens))

FaceRow(tokens) == [k \in 1..3 |-> AsUint32(IntRow(tokens)[k])]

read_off(file) ==
    LET lines == non_empty_lines(file) IN
    IF lines = <<>> THEN Raise("ValueError", "empty")
    ELSE IF Len(lines[1]) # 1 \/ Upper(lines[1][1]) # "OFF"
         THEN Raise("ValueError", "OFF header")
    ELSE IF Len(lines) < 2 THEN Raise("ValueError", "no count line")
    ELSE LET parts == lines[2] IN
    IF Len(parts) < 2 THEN Raise("ValueError", "count line")
    ELSE IF ~IsInt(parts[1]) \/ ~IsInt(parts[2])
         THEN Raise("ValueError", "parse count line")
    ELSE LET n_verts    == IntTab[parts[1]]
             n_faces    == IntTab[parts[2]]
             data_lines == Slice(lines, 3, Len(lines))
         IN
    IF Len(data_lines) < n_verts + n_faces
       THEN Raise("ValueError", "data lines")
    ELSE IF n_verts < 0 THEN Raise("ValueError", "negative dimensions")
    ELSE LET vbad == {i \in 1..n_verts :
                         \/ i > Len(data_lines)
                         \/ OffVertex(data_lines[i]) = None}
         IN
    IF vbad # {} /\ Min(vbad) > Len(data_lines)
       THEN Raise("IndexError", "vertex line")
    ELSE IF vbad # {} THEN Raise("ValueError", "parse vertex")
    ELSE IF n_faces < 0 THEN Raise("ValueError", "negative dimensions")
    ELSE LET bad == {j \in 1..n_faces :
                        FaceLineError(data_lines[n_verts + j]) # ""}
             vertices == [shape |-> <<n_verts, 3>>,
                          data  |-> [i \in 1..n_verts |->
                                        OffVertex(data_lines[i])[1]]]
             faces    == [shape |-> <<n_faces, 3>>,
                          data  |-> [j \in 1..n_faces |->
                                        FaceRow(data_lines[n_verts + j])]]
         IN
    IF bad # {}
       THEN FaceLineRaise(data_lines[n_verts + Min(bad)])
    ELSE IF n_faces > 0 /\ OutOfRange(faces, n_verts)
         THEN Raise("ValueError", "out of range")
    ELSE [kind |-> "ok", vertices |-> vertices, faces |-> faces]

\* `word in line.upper()`, on tokens.
HasWord(line, word) == \E k \in 1..Len(line) : Upper(line[k]) = word

\* The section keywords that end the POINTS data and the POLYGONS data.
VtkCommonKeywords ==
    {"LINES", "STRIPS", "VERTICES", "POINT_DATA", "CELL_DATA", "FIELD",
     "NORMALS", "TEXTURE_COORDINATES", "SCALARS", "LOOKUP_TABLE"}
VtkPointsStop == {"POLYGONS"} \cup VtkCommonKeywords
VtkPolygonsStop == {"POINTS"} \cup VtkCommonKeywords

\* The loop that collects 3 * n_pts floats from the lines after a POINTS
\* line: [i, floats, err], i the line it stopped at.
RECURSIVE VtkCollectFloats(_, _, _, _)
VtkCollectFloats(lines, i, need, floats) ==
    IF ~(Len(floats) < need /\ i <= Len(lines))
       THEN [i |-> i, floats |-> floats, err |-> ""]
    ELSE IF Upper(lines[i][1]) \in VtkPointsStop
       THEN [i |-> i, floats |-> floats, err |-> ""]
    ELSE IF \E k \in 1..Len(lines[i]) : ~IsFloat(lines[i][k])
       THEN [i |-> i, floats |-> floats, err |-> "ValueError"]
    ELSE VtkCollectFloats(lines, i + 1, need,
             floats \o [k \in 1..Len(lines[i]) |-> FloatTab[lines[i][k]]])

\* The loop that collects n_polys faces from the lines after a POLYGONS
\* line: [i, face_list, exc, msg].
RECURSIVE VtkCollectFaces(_, _, _, _)
VtkCollectFaces(lines, i, n_polys, face_list) ==
    LET stop(exc, msg) ==
            [i |-> i, face_list |-> face_list, exc |-> exc, msg |-> msg]
    IN
    IF ~(Len(face_list) < n_polys /\ i <= Len(lines)) THEN stop("", "")
    ELSE IF Upper(lines[i][1]) \in VtkPolygonsStop THEN stop("", "")
    ELSE LET tokens == lines[i] IN
    IF ~IsInt(tokens[1]) THEN stop("ValueError", "int")
    ELSE IF IntTab[tokens[1]] # 3 THEN stop("ValueError", "triangles")
    ELSE LET kbad == {k \in 2..4 : k > Len(tokens) \/ ~IsInt(tokens[k])} IN
    IF kbad # {} /\ Min(kbad) > Len(tokens) THEN stop("IndexError", "list index")
    ELSE IF kbad # {} THEN stop("ValueError", "int")
    ELSE VtkCollectFaces(lines, i + 1, n_polys,
                         Append(face_list, IntRow(tokens)))

\* `floats[: 3 * n_pts]` reshaped to (n_pts, 3), as rows.
Rows3(floats, n) == [r \in 1..n |-> <<floats[3 * r - 2], floats[3 * r - 1],
                                       floats[3 * r]>>]

\* The section scan of read_vtk_ascii_polydata and what follows it.
\* vertices and faces are optional arrays.
RECURSIVE VtkScan(_, _, _, _)
VtkScan(lines, i, vertices, faces) ==
    IF i > Len(lines) THEN
        IF vertices = None THEN Raise("ValueError", "No POINTS")
        ELSE IF faces = None THEN Raise("ValueError", "No POLYGONS")
        ELSE IF /\ Len(faces[1].data) > 0
                /\ OutOfRange(faces[1], vertices[1].shape[1])
             THEN Raise("ValueError", "out of range")
        ELSE [kind |-> "ok", vertices |-> vertices[1], faces |-> faces[1]]
    ELSE IF Upper(lines[i][1]) = "POINTS" THEN
        IF Len(lines[i]) < 2 THEN Raise("IndexError", "list index")
        ELSE IF ~IsInt(lines[i][2]) THEN Raise("ValueError", "int")
        ELSE LET n_pts == IntTab[lines[i][2]]
                 got   == VtkCollectFloats(lines, i + 1, 3 * n_pts, <<>>)
             IN
        IF got.err # "" THEN Raise(got.err, "float")
        ELSE IF Len(got.floats) < 3 * n_pts
             THEN Raise("ValueError", "Expected floats for POINTS")
        \* n_pts = -1: `floats[:-3]` of the empty list is empty and
        \* reshape(-1, 3) infers zero rows.
        ELSE LET n == IF n_pts < 0 THEN 0 ELSE n_pts IN
             VtkScan(lines, got.i,
                     Some([shape |-> <<n, 3>>, data |-> Rows3(got.floats, n)]),
                     faces)
    ELSE IF Upper(lines[i][1]) = "POLYGONS" THEN
        IF Len(lines[i]) < 2 THEN Raise("IndexError", "list index")
        ELSE IF ~IsInt(lines[i][2]) THEN Raise("ValueError", "int")
        ELSE LET n_polys == IntTab[lines[i][2]]
                 got     == VtkCollectFaces(lines, i + 1, n_polys, <<>>)
             IN
        IF got.exc # "" THEN Raise(got.exc, got.msg)
        ELSE IF Len(got.face_list) < n_polys
             THEN Raise("ValueError", "Expected polygons")
        ELSE IF \E j \in 1..Len(got.face_list) :
                    ~StoresAsUint32(got.face_list[j])
             THEN Raise("OverflowError", "out of bounds for uint32")
        \* np.array([], dtype=uint32) is 1-D: shape (0,).
        ELSE VtkScan(lines, got.i, vertices,
                     Some([shape |-> IF got.face_list = <<>> THEN <<0>>
                                     ELSE <<Len(got.face_list), 3>>,
                           data  |-> [j \in 1..Len(got.face_list) |->
                                         [k \in 1..3 |->
                                           AsUint32(got.face_list[j][k])]]]))
    ELSE VtkScan(lines, i + 1, vertices, faces)

read_vtk_ascii_polydata(file) ==
    LET raw_lines == file IN
    IF Len(raw_lines) < 3 THEN Raise("ValueError", "too short")
    ELSE IF HasWord(raw_lines[3], "BINARY") THEN Raise("ValueError", "BINARY")
    ELSE IF ~HasWord(raw_lines[3], "ASCII")
         THEN Raise("ValueError", "format line")
    ELSE LET ds == {k \in 1..Len(raw_lines) :
                       /\ raw_lines[k] # <<>>
                       /\ Upper(raw_lines[k][1]) = "DATASET"}
         IN
    IF ds = {} THEN Raise("ValueError", "No DATASET")
    ELSE IF ~HasWord(raw_lines[Min(ds)], "POLYDATA")
         THEN Raise("ValueError", "POLYDATA")
    ELSE VtkScan(non_empty_lines(raw_lines), 1, None, None)

LowerTab ==
    ("PLY" :> "ply") @@ ("FORMAT" :> "format") @@ ("ASCII" :> "ascii")
    @@ ("END_HEADER" :> "end_header") @@ ("ELEMENT" :> "element")
    @@ ("OFF" :> "off") @@ ("VTK" :> "vtk") @@ ("GII" :> "gii")
    @@ ("SURF" :> "surf") @@ ("MGZ" :> "mgz") @@ ("NPY" :> "npy")
    @@ ("FUNC" :> "func")

Lower(t) == IF t \in DOMAIN LowerTab THEN LowerTab[t] ELSE t

\* `lower.startswith("<w1> <w2>")` and `lower.startswith("<w1>")`, on tokens.
StartsWith2(line, w1, w2) ==
    Len(line) >= 2 /\ Lower(line[1]) = w1 /\ Lower(line[2]) = w2
StartsWith1(line, w1) == Len(line) >= 1 /\ Lower(line[1]) = w1

\* Index (1-based) of the first occurrence of x in s, 0 when absent.
IndexOf(s, x) ==
    IF \E k \in 1..Len(s) : s[k] = x
       THEN Min({k \in 1..Len(s) : s[k] = x}) ELSE 0

\* The header loop of read_ply_ascii from raw line idx on.  st holds
\* n_verts and n_faces (optional), vertex_props, in_vertex, header_end
\* (the count of raw lines up to and including end_header, 0 when none).
RECURSIVE PlyHeader(_, _, _)
PlyHeader(raw_lines, idx, st) ==
    IF idx > Len(raw_lines) THEN st
    ELSE LET line == raw_lines[idx] IN
    IF Len(line) = 1 /\ Lower(line[1]) = "end_header"
       THEN [st EXCEPT !.header_end = idx]
    ELSE IF StartsWith2(line, "element", "vertex") THEN
        IF Len(line) < 3 THEN [st EXCEPT !.exc = "IndexError"]
        ELSE IF ~IsInt(line[3]) THEN [st EXCEPT !.exc = "ValueError"]
        ELSE PlyHeader(raw_lines, idx + 1,
                 [st EXCEPT !.n_verts = Some(IntTab[line[3]]),
                            !.in_vertex = TRUE])
    ELSE IF StartsWith2(line, "element", "face") THEN
        IF Len(line) < 3 THEN [st EXCEPT !.exc = "IndexError"]
        ELSE IF ~IsInt(line[3]) THEN [st EXCEPT !.exc = "ValueError"]
        ELSE PlyHeader(raw_lines, idx + 1,
                 [st EXCEPT !.n_faces = Some(IntTab[line[3]]),
                            !.in_vertex = FALSE])
    ELSE IF StartsWith1(line, "property") /\ st.in_vertex THEN
        PlyHeader(raw_lines, idx + 1,
            IF Len(line) >= 3
               THEN [st EXCEPT !.vertex_props = Append(@, line[Len(line)])]
               ELSE st)
    ELSE IF StartsWith1(line, "element") THEN
        PlyHeader(raw_lines, idx + 1, [st EXCEPT !.in_vertex = FALSE])
    ELSE PlyHeader(raw_lines, idx + 1, st)

\* The encoding check on raw_lines[1:4]: TRUE when it raises.
PlyBinaryRejected(raw_lines) ==
    LET fmt == {k \in 2..4 : k <= Len(raw_lines)
                              /\ StartsWith1(raw_lines[k], "format")}
    IN  fmt # {} /\ ~\E k \in 1..Len(raw_lines[Min(fmt)]) :
                        Lower(raw_lines[Min(fmt)][k]) = "ascii"

\* One vertex line of a PLY file, columns xi, yi, zi: None when it raises.
PlyVertex(tokens, xi, yi, zi) ==
    IF \E c \in {xi, yi, zi} : c > Len(tokens) \/ ~IsFloat(tokens[c])
       THEN None
       ELSE Some(<<FloatTab[tokens[xi]], FloatTab[tokens[yi]],
                   FloatTab[tokens[zi]]>>)

read_ply_ascii(file) ==
    LET raw_lines == file IN
    IF raw_lines = <<>> \/ raw_lines[1] # <<"ply">>
       THEN Raise("ValueError", "ply magic")
    ELSE IF PlyBinaryRejected(raw_lines) THEN Raise("ValueError", "binary")
    ELSE LET st == PlyHeader(raw_lines, 1,
                       [n_verts |-> None, n_faces |-> None,
                        vertex_props |-> <<>>, in_vertex |-> FALSE,
                        header_end |-> 0, exc |-> ""])
         IN
    IF st.exc # "" THEN Raise(st.exc, "element count")
    ELSE IF st.n_verts = None THEN Raise("ValueError", "No element vertex")
    ELSE IF st.n_faces = None THEN Raise("ValueError", "No element face")
    ELSE LET n_verts == st.n_verts[1]
             n_faces == st.n_faces[1]
             xi == IndexOf(st.vertex_props, "x")
             yi == IndexOf(st.vertex_props, "y")
             zi == IndexOf(st.vertex_props, "z")
             data_lines ==
                 SelectSeq(Slice(raw_lines, st.header_end + 1, Len(raw_lines)),
                           LAMBDA line : line # <<>>)
         IN
    IF xi = 0 \/ yi = 0 \/ zi = 0 THEN Raise("ValueError", "missing x/y/z")
    ELSE IF Len(data_lines) < n_verts + n_faces
         THEN Raise("ValueError", "data lines")
    ELSE IF n_verts < 0 THEN Raise("ValueError", "negative dimensions")
    ELSE LET vbad == {i \in 1..n_verts :
                         \/ i > Len(data_lines)
                         \/ PlyVertex(data_lines[i], xi, yi, zi) = None}
         IN
    IF vbad # {} /\ Min(vbad) > Len(data_lines)
       THEN Raise("IndexError", "vertex line")
    ELSE IF vbad # {} THEN Raise("ValueError", "parse vertex")
    ELSE IF n_faces < 0 THEN Raise("ValueError", "negative dimensions")
    ELSE LET bad == {j \in 1..n_faces :
                        FaceLineError(data_lines[n_verts + j]) # ""}
             vertices == [shape |-> <<n_verts, 3>>,
                          data  |-> [i \in 1..n_verts |->
                              PlyVertex(data_lines[i], xi, yi, zi)[1]]]
             faces    == [shape |-> <<n_faces, 3>>,
                          data  |-> [j \in 1..n_faces |->
                                        FaceRow(data_lines[n_verts + j])]]
         IN
    IF bad # {}
       THEN FaceLineRaise(data_lines[n_verts + Min(bad)])
    ELSE IF n_faces > 0 /\ OutOfRange(faces, n_verts)
         THEN Raise("ValueError", "out of range")
    ELSE [kind |-> "ok", vertices |-> vertices, faces |-> faces]

_READERS == {"off", "vtk", "ply"}

\* A path is the sequence of the dot-separated parts of its file name:
\* "lh.surf.gii" is <<"lh", "surf", "gii">>, ".mgh" is <<"", "mgh">>.  The
\* extension without its dot, "" when the name has none: os.path.splitext
\* takes leading dots as part of the name.
splitext(path) ==
    IF \E k \in 1..(Len(path) - 1) : path[k] # "" THEN path[Len(path)]
    ELSE ""

LowerPath(path) == [k \in 1..Len(path) |-> Lower(path[k])]

\* lower.endswith(".<a>.<b>")
EndsWith2(path, a, b) ==
    Len(path) >= 3 /\ path[Len(path) - 1] = a /\ path[Len(path)] = b

\* What a text reader sees when it opens the file: the lines of a text
\* file, one line of replacement characters for a binary file.
TextOf(content) ==
    IF content.fmt = "text" THEN content.lines ELSE << <<"<binary>">> >>

read_mesh(path, content) ==
    LET ext == Lower(splitext(path)) IN
    IF ext \notin _READERS
       THEN Raise("ValueError", "Unsupported mesh file extension")
    ELSE IF ext = "off" THEN read_off(TextOf(content))
    ELSE IF ext = "vtk" THEN read_vtk_ascii_polydata(TextOf(content))
    ELSE IF ext = "ply" THEN read_ply_ascii(TextOf(content))
    ELSE Raise("ValueError", "Unsupported mesh file extension")

(***************************************************************************)
(* geometry/inputs.py: resolve_mesh                                        *)
(***************************************************************************)
_MESH_IO_EXTS == {"off", "vtk", "ply", "gii"}

\* The FreeSurfer surface decoder: it returns the vertex and face arrays
\* the file holds, as they are, and raises on any other file.
read_geometry(content) ==
    IF content.fmt = "fs_surf"
       THEN [kind |-> "ok", coords |-> content.coords, faces |-> content.faces]
       ELSE Raise("ValueError", "not a FreeSurfer surface")

ndim(arr) == Len(arr.shape)

RECURSIVE Product(_)
Product(shape) ==
    IF shape = <<>> THEN 1 ELSE shape[1] * Product(Tail(shape))

\* np.asarray(a, dtype=np.uint32) of an integer array.
CastUint32(arr) ==
    [arr EXCEPT !.data =
        IF ndim(arr) = 2
           THEN [r \in 1..Len(arr.data) |->
                    [k \in 1..Len(arr.data[r]) |-> AsUint32(arr.data[r][k])]]
           ELSE [r \in 1..Len(arr.data) |-> AsUint32(arr.data[r])]]

\* mesh is [tag |-> "str", path, content] for a path and the file it names,
\* [tag |-> "tuple", items |-> <<...>>] for a tuple or list of arrays, and
\* [tag |-> "other"] for any other object.
resolve_mesh(mesh) ==
    LET loaded ==
            IF mesh.tag = "str" THEN
                LET lower == LowerPath(mesh.path) IN
                IF \/ EndsWith2(lower, "surf", "gii")
                   \/ splitext(lower) \in _MESH_IO_EXTS
                   THEN read_mesh(mesh.path, mesh.content)
                   ELSE LET g == read_geometry(mesh.content) IN
                        IF g.kind = "raise" THEN g
                        ELSE [kind |-> "ok", vertices |-> g.coords,
                              faces |-> CastUint32(g.faces)]
            ELSE IF mesh.tag = "tuple" /\ Len(mesh.items) = 2
                 THEN [kind |-> "ok", vertices |-> mesh.items[1],
                       faces |-> CastUint32(mesh.items[2])]
            ELSE Raise("TypeError", "mesh must be a path or a tuple")
    IN
    IF loaded.kind = "raise" THEN loaded
    ELSE LET vertices == loaded.vertices
             faces    == loaded.faces
         IN
    IF ndim(vertices) # 2 \/ vertices.shape[2] # 3
       THEN Raise("ValueError", "vertices shape")
    ELSE IF ndim(faces) # 2 \/ faces.shape[2] # 3
         THEN Raise("ValueError", "faces shape")
    ELSE IF /\ mesh.tag # "str" /\ Product(faces.shape) > 0
            /\ OutOfRange(faces, vertices.shape[1])
         THEN Raise("ValueError", "out of range")
    ELSE [kind |-> "ok", vertices |-> vertices, faces |-> faces]

(***************************************************************************)
(* geometry/inputs.py: the overlay, background-map, ROI and annotation     *)
(* resolvers.  A per-vertex array is                                       *)
(* [dtype |-> ..., shape |-> <<...>>, data |-> <<...>>] with data flat, in *)
(* row order; a float is a fraction, an integer an integer, a boolean TRUE *)
(* or FALSE.  A file on disk is [fmt, arr, ids, labels, ctab, names]: its  *)
(* format, the flat array a scalar file decodes to, the vertex ids a label *)
(* file lists, and the labels, color table and names of an annotation.     *)
(***************************************************************************)
\* _OVERLAY_IO_EXTS without .csv.
_OVERLAY_IO_EXTS_NoCsv == {"txt", "npy", "npz", "gii"}

_OVERLAY_IO_EXTS == {"txt", "csv", "npy", "npz", "gii"}

\* The FreeSurfer decoders: each returns the flat array the file of its
\* format holds and raises on any other file.
read_mgh_data(content) ==
    IF content.fmt = "mgh" THEN [kind |-> "ok", value |-> content.arr]
    ELSE Raise("ValueError", "not an MGH file")

read_morph_data(content) ==
    IF content.fmt = "morph" THEN [kind |-> "ok", value |-> content.arr]
    ELSE Raise("ValueError", "not a morph file")

read_annot_data(content) ==
    IF content.fmt = "annot"
       THEN [kind |-> "ok", labels |-> content.labels, ctab |-> content.ctab,
             names |-> content.names]
       ELSE Raise("ValueError", "not an annot file")

\* overlay_io's reader of one format applied to a file: the flat (N,)
\* array it decodes, or its ValueError on a file it cannot decode.
ReaderResult(content, fmt) ==
    IF content.fmt = fmt THEN [kind |-> "ok", value |-> content.arr]
    ELSE Raise("ValueError", "cannot decode")

\* overlay_io._READERS, extension to format read.
OverlayReaders ==
    ("txt" :> "txt") @@ ("csv" :> "txt") @@ ("npy" :> "npy")
    @@ ("npz" :> "npz") @@ ("gii" :> "gii")

read_overlay(path, content) ==
    LET lower == LowerPath(path) IN
    IF EndsWith2(lower, "func", "gii") \/ EndsWith2(lower, "label", "gii")
       THEN ReaderResult(content, "gii")
    ELSE LET ext == Lower(splitext(path)) IN
         IF ext \notin DOMAIN OverlayReaders
            THEN Raise("ValueError", "Unsupported overlay file extension")
            ELSE ReaderResult(content, OverlayReaders[ext])

_load_overlay_from_file(path, content) ==
    LET lower == LowerPath(path) IN
    IF EndsWith2(lower, "func", "gii") \/ EndsWith2(lower, "label", "gii")
       THEN read_overlay(path, content)
    ELSE LET ext == splitext(lower) IN
         IF ext \in {"mgh", "mgz"} THEN read_mgh_data(content)
         ELSE IF ext \in _OVERLAY_IO_EXTS THEN read_overlay(path, content)
         ELSE read_morph_data(content)

\* astype / asarray to another dtype: float32 keeps the value (rounding is
\* not modelled), bool is "not zero" (NaN is True).
AsType(arr, dtype) ==
    [dtype |-> dtype, shape |-> arr.shape,
     data |-> IF dtype = "bool" /\ arr.dtype # "bool"
                 THEN [k \in 1..Len(arr.data) |-> arr.data[k] # <<0, 1>>]
                 ELSE arr.data]

\* ShapeDiffers comparing the number of elements instead of the shape.
ShapeDiffers_SizeOnly(arr, n_vertices) ==
    n_vertices = None \/ Product(arr.shape) # n_vertices[1]

\* ShapeDiffers with the comparison skipped when n_vertices is None.
ShapeDiffers_NoneSkips(arr, n_vertices) ==
    n_vertices # None /\ arr.shape # <<n_vertices[1]>>

\* `arr.shape != (n_vertices,)`: a tuple holding None equals no shape.
ShapeDiffers(arr, n_vertices) ==
    n_vertices = None \/ arr.shape # <<n_vertices[1]>>

\* x is [tag |-> "none"], [tag |-> "str", path, content] or
\* [tag |-> "array", arr]; n_vertices is None or Some(n).
resolve_overlay(overlay, n_vertices) ==
    IF overlay.tag = "none" THEN [kind |-> "ok", value |-> None]
    ELSE LET loaded ==
                 IF overlay.tag = "str"
                    THEN _load_overlay_from_file(overlay.path, overlay.content)
                    ELSE [kind |-> "ok", value |-> overlay.arr]
         IN
    IF loaded.kind = "raise" THEN loaded
    ELSE LET arr == AsType(loaded.value, "float32") IN
    IF n_vertices # None /\ ShapeDiffers(arr, n_vertices)
       THEN Raise("ValueError", "overlay has shape")
       ELSE [kind |-> "ok", value |-> Some(arr)]

\* resolve_bg_map without the shape check.
resolve_bg_map_Unchecked(bg_map, n_vertices) == resolve_overlay(bg_map, None)

resolve_bg_map(bg_map, n_vertices) ==
    IF bg_map.tag = "none" THEN [kind |-> "ok", value |-> None]
    ELSE LET loaded ==
                 IF bg_map.tag = "str"
                    THEN _load_overlay_from_file(bg_map.path, bg_map.content)
                    ELSE [kind |-> "ok", value |-> bg_map.arr]
         IN
    IF loaded.kind = "raise" THEN loaded
    ELSE LET arr == AsType(loaded.value, "float32") IN
    IF n_vertices # None /\ ShapeDiffers(arr, n_vertices)
       THEN Raise("ValueError", "bg_map has shape")
       ELSE [kind |-> "ok", value |-> Some(arr)]

\* utils/colormap.py mask_label.  labelpath is a path, <<>> for None or "";
\* content is the file it names.  The outcome holds the returned array and,
\* as `after`, the caller's `values` when the call ends.
mask_label(values, labelpath, content) ==
    IF labelpath = <<>>
       THEN [kind |-> "ok", value |-> values, after |-> values]
    \* np.loadtxt(labelpath, dtype=int, skiprows=2, usecols=[0])
    ELSE IF content.fmt # "label"
         THEN [kind |-> "raise", exc |-> "ValueError",
               msg |-> "loadtxt", after |-> values]
    ELSE LET maskvids == content.ids
             n        == IF ndim(values) = 1 THEN values.shape[1] ELSE 0
         IN
    \* imask[maskvids] = False
    IF \/ ndim(values) = 0
       \/ \E k \in 1..Len(maskvids) : maskvids[k] >= n \/ maskvids[k] < -n
       THEN [kind |-> "raise", exc |-> "IndexError",
             msg |-> "index out of bounds", after |-> values]
    ELSE LET listed == {IF maskvids[k] < 0 THEN maskvids[k] + n + 1
                        ELSE maskvids[k] + 1 : k \in 1..Len(maskvids)}
             masked == [values EXCEPT !.data =
                           [v \in 1..n |-> IF v \in listed THEN values.data[v]
                                           ELSE NaN]]
         IN [kind |-> "ok", value |-> masked, after |-> masked]

\* np.ones(n_vertices, dtype=np.float32).  For None, a numpy that takes
\* None as an alias of the shape () (numpy 1, with a DeprecationWarning)
\* returns a 0-d array and one that does not raises TypeError.
np_ones(n_vertices) ==
    IF n_vertices # None
       THEN [kind |-> "ok",
             value |-> [dtype |-> "float32", shape |-> <<n_vertices[1]>>,
                        data |-> [v \in 1..n_vertices[1] |-> <<1, 1>>]]]
    ELSE IF numpy = 1
         THEN [kind |-> "ok",
               value |-> [dtype |-> "float32", shape |-> <<>>,
                          data |-> << <<1, 1>> >>]]
    ELSE Raise("TypeError", "expected a sequence of integers or an integer")

\* np.isnan(masked), without the negation.
NotNaN_IsNaN(arr) ==
    [dtype |-> "bool", shape |-> arr.shape,
     data |-> [k \in 1..Len(arr.data) |-> arr.data[k] = NaN]]

\* ~np.isnan(masked)
NotNaN(arr) ==
    [dtype |-> "bool", shape |-> arr.shape,
     data |-> [k \in 1..Len(arr.data) |-> arr.data[k] # NaN]]

resolve_roi(roi, n_vertices) ==
    IF roi.tag = "none" THEN [kind |-> "ok", value |-> None]
    ELSE LET lower == IF roi.tag = "str" THEN LowerPath(roi.path) ELSE <<>>
             use_overlay_io ==
                 \/ EndsWith2(lower, "func", "gii")
                 \/ EndsWith2(lower, "label", "gii")
                 \/ splitext(lower) \in _OVERLAY_IO_EXTS
             raw == _load_overlay_from_file(roi.path, roi.content)
             sentinel == np_ones(n_vertices)
             masked == mask_label(sentinel.value, roi.path, roi.content)
             loaded ==
                 IF roi.tag = "str" THEN
                     IF use_overlay_io THEN
                         IF raw.kind = "raise" THEN raw
                         ELSE [kind |-> "ok",
                               value |-> AsType(raw.value, "bool")]
                     ELSE IF sentinel.kind = "raise" THEN sentinel
                     ELSE IF masked.kind = "raise"
                          THEN Raise(masked.exc, masked.msg)
                     ELSE [kind |-> "ok", value |-> NotNaN(masked.value)]
                 ELSE [kind |-> "ok", value |-> AsType(roi.arr, "bool")]
         IN
    IF loaded.kind = "raise" THEN loaded
    ELSE IF ShapeDiffers(loaded.value, n_vertices)
         THEN Raise("ValueError", "roi has shape")
    ELSE [kind |-> "ok", value |-> Some(loaded.value)]

\* annot is [tag |-> "none"], [tag |-> "str", path, content],
\* [tag |-> "tuple", items] for a tuple or list, or [tag |-> "other"].
resolve_annot(annot, n_vertices) ==
    IF annot.tag = "none" THEN [kind |-> "ok", value |-> None]
    ELSE LET loaded ==
                 IF annot.tag = "str" THEN read_annot_data(annot.content)
                 ELSE IF annot.tag = "tuple" /\ Len(annot.items) = 2
                      THEN [kind |-> "ok", labels |-> annot.items[1],
                            ctab |-> annot.items[2], names |-> None]
                 ELSE IF annot.tag = "tuple" /\ Len(annot.items) = 3
                      THEN [kind |-> "ok", labels |-> annot.items[1],
                            ctab |-> annot.items[2],
                            names |-> Some(annot.items[3])]
                 ELSE Raise("TypeError", "annot must be a path or a tuple")
         IN
    IF loaded.kind = "raise" THEN loaded
    ELSE IF ShapeDiffers(loaded.labels, n_vertices)
         THEN Raise("ValueError", "annot labels have shape")
    ELSE [kind |-> "ok",
          value |-> Some([labels |-> loaded.labels, ctab |-> loaded.ctab,
                          names |-> loaded.names])]

(***************************************************************************)
(* utils/colormap.py: the colormap primitives.  `values` is a per-vertex   *)
(* float array.  A primitive that writes into the array it is given ends   *)
(* with `after`, the caller's array when the call ends.                    *)
(***************************************************************************)
\* The RGB row heat_color gives one value.
\* The green ramp without its offset.
HeatGreen_Unshifted(vabs) == Mul(<<3, 2>>, vabs)

\* `cg = 1.5 * (vabs - (1.0 / 3.0))`
HeatGreen(vabs) == Mul(<<3, 2>>, Sub(vabs, <<1, 3>>))

HeatRow(v) ==
    LET vabs == Abs(v)
        crb  == Add(<<9, 16>>, Mul(<<21, 16>>, vabs))
        cg   == HeatGreen(vabs)
    IN  IF IsNaN(v) THEN <<NaN, NaN, NaN>>
        ELSE IF Lt(v, Num(-1)) THEN <<Num(0), Num(1), Num(1)>>
        ELSE IF Lt(v, <<-1, 3>>) THEN <<Num(0), cg, Num(1)>>
        ELSE IF Lt(v, Num(0)) THEN <<Num(0), Num(0), crb>>
        ELSE IF Lt(v, <<1, 3>>) THEN <<crb, Num(0), Num(0)>>
        ELSE IF Lt(v, Num(1)) THEN <<Num(1), cg, Num(0)>>
        ELSE <<Num(1), Num(1), Num(0)>>

heat_color(values, invert) ==
    LET vals == IF invert THEN [k \in 1..Len(values.data) |->
                                   Mul(Num(-1), values.data[k])]
                ELSE values.data
    IN  [dtype |-> "float32", shape |-> <<Len(vals), 3>>,
         data |-> [k \in 1..Len(vals) |-> HeatRow(vals[k])]]

\* color_mode is "BOTH", "POSITIVE" or "NEGATIVE".
mask_sign(values, color_mode) ==
    [values EXCEPT !.data =
        [k \in 1..Len(values.data) |->
            IF color_mode = "POSITIVE" /\ Lt(values.data[k], Num(0)) THEN NaN
            ELSE IF color_mode = "NEGATIVE" /\ Gt(values.data[k], Num(0))
                 THEN NaN
            ELSE values.data[k]]]

\* BelowThreshold with `<=` for `<`.
BelowThreshold_Inclusive(valabs, minval) == Ge(minval, valabs)

\* `valabs < minval`, for one entry.
BelowThreshold(valabs, minval) == Lt(valabs, minval)

\* NegativeThreshold looking at minval only.
NegativeThreshold_MinOnly(minval, maxval) == Lt(minval, Num(0))

\* `maxval < 0 or minval < 0`
NegativeThreshold(minval, maxval) == Lt(maxval, Num(0)) \/ Lt(minval, Num(0))

rescale_overlay(values, minval, maxval) ==
    LET valsign == [k \in 1..Len(values.data) |-> Sign(values.data[k])]
        valabs  == [k \in 1..Len(values.data) |-> Abs(values.data[k])]
    IN
    IF NegativeThreshold(minval, maxval)
       THEN [kind |-> "raise", exc |-> "ValueError",
             msg |-> "minval and maxval must be non-negative",
             after |-> values]
    \* values[valabs < minval] = np.nan, in the array of the caller
    ELSE LET marked == [k \in 1..Len(values.data) |->
                           IF BelowThreshold(valabs[k], minval) THEN NaN
                           ELSE values.data[k]]
             range_val == Sub(maxval, minval)
             scaled ==
                 IF range_val = Num(0)
                    THEN [k \in 1..Len(marked) |-> Num(0)]
                    ELSE [k \in 1..Len(marked) |->
                             Div(Sub(marked[k], Mul(valsign[k], minval)),
                                 range_val)]
         IN [kind |-> "ok",
             values |-> [values EXCEPT !.data = scaled],
             minval |-> minval, maxval |-> maxval,
             pos |-> \E k \in 1..Len(scaled) : Gt(scaled[k], Num(0)),
             neg |-> \E k \in 1..Len(scaled) : Lt(scaled[k], Num(0)),
             after |-> [values EXCEPT !.data = marked]]

\* color_low and color_high are scalars, expanded to RGB rows.  A value that
\* is neither < thres nor >= thres (NaN) leaves its row of np.empty as it
\* is: `uninit` is what that memory holds.
binary_color(values, thres, color_low, color_high, uninit) ==
    [dtype |-> "float32", shape |-> <<Len(values.data), 3>>,
     data |-> [k \in 1..Len(values.data) |->
                  IF Lt(values.data[k], thres)
                     THEN <<color_low, color_low, color_low>>
                  ELSE IF Ge(values.data[k], thres)
                       THEN <<color_high, color_high, color_high>>
                  ELSE <<uninit, uninit, uninit>>]]

(***************************************************************************)
(* geometry/prepare.py: the geometry preparer.                             *)
(***************************************************************************)
\* np.max / np.min of a non-empty sequence of floats: NaN when one is NaN.
NpMax(s) ==
    IF \E k \in 1..Len(s) : IsNaN(s[k]) THEN NaN
    ELSE CHOOSE x \in Range(s) : \A y \in Range(s) : Ge(x, y)

\* np.min returning the largest entry.
NpMin_AsMax(s) == NpMax(s)

NpMin(s) ==
    IF \E k \in 1..Len(s) : IsNaN(s[k]) THEN NaN
    ELSE CHOOSE x \in Range(s) : \A y \in Range(s) : Ge(y, x)

Column(rows, j) == [i \in 1..Len(rows) |-> rows[i][j]]

\* v is an (n, 3) table with n >= 1 (np.max of an empty table raises).
normalize_mesh(v, scale) ==
    LET bbmax  == [j \in 1..3 |-> NpMax(Column(v.data, j))]
        bbmin  == [j \in 1..3 |-> NpMin(Column(v.data, j))]
        centre == [j \in 1..3 |-> Mul(<<1, 2>>, Add(bbmax[j], bbmin[j]))]
        extent == NpMax([j \in 1..3 |-> Sub(bbmax[j], bbmin[j])])
    IN  [v EXCEPT !.data =
            [i \in 1..Len(v.data) |->
                [j \in 1..3 |->
                    Div(Mul(scale, Sub(v.data[i][j], centre[j])), extent)]]]

Vec3Sub(a, b) == [j \in 1..3 |-> Sub(a[j], b[j])]

Vec3Neg(a) == [j \in 1..3 |-> Neg(a[j])]

\* np.cross of two 3-vectors.
Cross(a, b) ==
    <<Sub(Mul(a[2], b[3]), Mul(a[3], b[2])),
      Sub(Mul(a[3], b[1]), Mul(a[1], b[3])),
      Sub(Mul(a[1], b[2]), Mul(a[2], b[1]))>>

RECURSIVE SumOf(_)
SumOf(s) == IF s = <<>> THEN Num(0) ELSE Add(s[1], SumOf(Tail(s)))

\* The contributions of the faces to the normals, as np.vstack([cr0, cr1,
\* cr2]) lists them, with the vertex each one goes to (idx, 1-based here).
NormalContribs(v, t) ==
    LET corner(f, c) == v.data[t.data[f][c] + 1]
        cr(f, c) ==
            LET v0 == corner(f, 1)
                v1 == corner(f, 2)
                v2 == corner(f, 3)
                v1mv0 == Vec3Sub(v1, v0)
                v2mv1 == Vec3Sub(v2, v1)
                v0mv2 == Vec3Sub(v0, v2)
            IN  IF c = 1 THEN Cross(v1mv0, Vec3Neg(v0mv2))
                ELSE IF c = 2 THEN Cross(v2mv1, Vec3Neg(v1mv0))
                ELSE Cross(v0mv2, Vec3Neg(v2mv1))
        m == Len(t.data)
    IN  [k \in 1..(3 * m) |->
            LET c == (k - 1) \div m + 1
                f == ((k - 1) % m) + 1
            IN  [idx |-> t.data[f][c] + 1, contrib |-> cr(f, c)]]

\* np.bincount(idx, weights=contribs[:, j], minlength=n), entry i.
Bincount(contribs, i, j) ==
    SumOf([k \in 1..Len(contribs) |->
              IF contribs[k].idx = i THEN contribs[k].contrib[j] ELSE Num(0)])

\* The unit normal n / ln of a vertex is held as n and ln * ln; an ln below
\* eps (here: zero) counts as 1.  t indexes rows of v.
vertex_normals(v, t) ==
    LET contribs == NormalContribs(v, t)
        n == [i \in 1..Len(v.data) |->
                 [j \in 1..3 |-> Bincount(contribs, i, j)]]
        ln2(i) == SumOf([j \in 1..3 |-> Mul(n[i][j], n[i][j])])
    IN  [dtype |-> "float64", shape |-> <<Len(v.data), 3>>,
         data |-> [i \in 1..Len(v.data) |->
                      [n |-> n[i],
                       ln2 |-> IF ln2(i) = Num(0) THEN Num(1) ELSE ln2(i)]]]

\* np.any(valabs): some entry is not zero (NaN is not zero).
NpAny(s) == \E k \in 1..Len(s) : s[k] # Num(0)

\* Python's max(0.0, x): x when x > 0.0, else 0.0 (also for NaN).
PyMax0(x) == IF Gt(x, Num(0)) THEN x ELSE Num(0)

\* minval and maxval are None or Some(number).
_estimate_thresholds_from_array(mapdata, minval, maxval) ==
    LET valabs == [k \in 1..Len(mapdata.data) |-> Abs(mapdata.data[k])]
    IN  [maxval |-> IF maxval = None
                       THEN (IF NpAny(valabs) THEN NpMax(valabs) ELSE Num(0))
                       ELSE maxval[1],
         minval |-> IF minval = None
                       THEN PyMax0(IF NpAny(valabs) THEN NpMin(valabs)
                                   ELSE Num(0))
                       ELSE minval[1]]

\* overlay is [tag |-> "str", path, content] or [tag |-> "array", arr];
\* minval and maxval are None or Some(number).
estimate_overlay_thresholds(overlay, minval, maxval) ==
    LET overlay_arr ==
            IF overlay.tag = "str" THEN resolve_overlay(overlay, None)
            ELSE [kind |-> "ok", value |-> Some(overlay.arr)]
    IN  IF overlay_arr.kind = "raise" THEN overlay_arr
        ELSE LET est == _estimate_thresholds_from_array(overlay_arr.value[1],
                                                        minval, maxval)
             IN  [kind |-> "ok", minval |-> est.minval, maxval |-> est.maxval]

\* `colors[mask, :] = source[mask, :]`
CopyRows(colors, source, mask) ==
    [i \in 1..Len(colors) |-> IF mask[i] THEN source[i] ELSE colors[i]]

\* RoiOutside without the negation.
RoiOutside_Inside(roi) == roi.data

\* `outside = ~roi` with roi a boolean array.
RoiOutside(roi) == [i \in 1..Len(roi.data) |-> ~roi.data[i]]

\* The ROI step: where roi is False the color falls back to sulcmap.  None
\* stands for the IndexError of a mask whose length is not that of colors.
ApplyRoi(colors, sulcmap, roi) ==
    IF roi = None THEN Some(colors)
    ELSE LET outside == RoiOutside(roi[1]) IN
         IF \A i \in 1..Len(outside) : ~outside[i] THEN Some(colors)
         ELSE IF Len(outside) # Len(colors) THEN None
         ELSE Some(CopyRows(colors, sulcmap, outside))

\* The flat gray 0.5 * np.ones(vertices.shape).
FlatGray(n) == [i \in 1..n |-> << <<1, 2>>, <<1, 2>>, <<1, 2>> >>]

\* The divisor of a table taken to be on the 0-255 scale whatever it holds.
AnnotDenom_Always255(top) == Num(255)

\* `denom = 255.0 if np.max(ctab_rgb) > 1 else 1.0`
AnnotDenom(top) == IF Gt(top, Num(1)) THEN Num(255) ELSE Num(1)

\* The annotation colors: the color-table row of every vertex whose label
\* indexes the table, over the background.  ctab is not empty.
AnnotColors(annot, ctab, sulcmap) ==
    LET ctab_rgb == [r \in 1..Len(ctab.data) |->
                        [j \in 1..3 |-> Num(ctab.data[r][j])]]
        top   == NpMax([k \in 1..(3 * Len(ctab_rgb)) |->
                           ctab_rgb[((k - 1) \div 3) + 1][((k - 1) % 3) + 1]])
        denom == AnnotDenom(top)
        valid == [i \in 1..Len(annot.data) |->
                     annot.data[i] >= 0 /\ annot.data[i] < ctab.shape[1]]
    IN  [i \in 1..Len(sulcmap) |->
            IF valid[i]
               THEN [j \in 1..3 |->
                        Div(ctab_rgb[annot.data[i] + 1][j], denom)]
               ELSE sulcmap[i]]

\* a holds the arguments: vertices, faces, overlay, annot, ctab, bg_map,
\* roi, minval, maxval (each None or Some(...)), invert, scale, color_mode.
\* uninit is what the memory of np.empty holds (see binary_color).
\* The overlay branch, entered only when no annotation is given.
UsesOverlay_UnlessAnnot(a) ==
    a.overlay # None /\ ~(a.annot # None /\ a.ctab # None)

\* `if overlay is not None:`, ahead of `elif annot is not None and ...`
UsesOverlay(a) == a.overlay # None

\* The overlay copy with the entries outside the ROI marked NaN.
OverlayCopy_InsideRoi(a) ==
    LET copied == AsType(a.overlay[1], "float64")
    IN  IF a.roi = None \/ a.roi[1].shape # copied.shape THEN copied
        ELSE [copied EXCEPT !.data =
                 [i \in 1..Len(copied.data) |->
                     IF a.roi[1].data[i] THEN copied.data[i] ELSE NaN]]

\* `mapdata = overlay.copy().astype(np.float64)`
OverlayCopy(a) == AsType(a.overlay[1], "float64")

prepare_geometry_from_arrays(a, uninit) ==
    LET num_vertices == a.vertices.shape[1]
        triangles    == CastUint32(a.faces)
    IN
    IF num_vertices = 0
       THEN Raise("ValueError", "zero-size array to reduction operation")
    ELSE IF \E f \in 1..Len(triangles.data) : \E c \in 1..3 :
                triangles.data[f][c] >= num_vertices
         THEN Raise("IndexError", "index out of bounds")
    ELSE LET vertices == normalize_mesh(a.vertices, a.scale)
             vnormals == vertex_normals(vertices, triangles)
             bg_mismatch ==
                 a.bg_map # None /\ a.bg_map[1].shape[1] # num_vertices
             sulcmap ==
                 IF a.bg_map = None \/ bg_mismatch THEN FlatGray(num_vertices)
                 ELSE binary_color(a.bg_map[1], Num(0), <<1, 2>>, <<33, 100>>,
                                   uninit).data
         IN
    IF UsesOverlay(a) THEN
        IF a.overlay[1].shape[1] # num_vertices
           THEN Raise("ValueError", "overlay has values but mesh has")
        ELSE LET copied == OverlayCopy(a)
                 est == _estimate_thresholds_from_array(copied, a.minval,
                                                        a.maxval)
                 r   == rescale_overlay(mask_sign(copied, a.color_mode),
                                        est.minval, est.maxval)
             IN
        IF r.kind = "raise" THEN Raise(r.exc, r.msg)
        ELSE LET mapdata == r.values
                 missing == [i \in 1..num_vertices |-> IsNaN(mapdata.data[i])]
                 colors  == CopyRows(heat_color(mapdata, a.invert).data,
                                     sulcmap, missing)
                 final   == ApplyRoi(colors, sulcmap, a.roi)
             IN
        IF final = None THEN Raise("IndexError", "boolean index did not match")
        ELSE [kind |-> "ok",
              vertexdata |-> [shape |-> <<num_vertices, 9>>,
                              vertices |-> vertices.data,
                              vnormals |-> vnormals.data,
                              colors |-> final[1]],
              triangles |-> triangles,
              fmin |-> Some(r.minval), fmax |-> Some(r.maxval),
              pos |-> Some(r.pos), neg |-> Some(r.neg),
              warned |-> bg_mismatch]
    ELSE IF a.annot # None /\ a.ctab # None
            /\ a.annot[1].shape[1] # num_vertices
         THEN Raise("ValueError", "annot has values but mesh has")
    ELSE IF a.annot # None /\ a.ctab # None /\ a.ctab[1].shape[1] = 0
         THEN Raise("ValueError", "zero-size array to reduction operation")
    ELSE LET colors == IF a.annot # None /\ a.ctab # None
                          THEN AnnotColors(a.annot[1], a.ctab[1], sulcmap)
                          ELSE sulcmap
             final  == ApplyRoi(colors, sulcmap, a.roi)
         IN
    IF final = None THEN Raise("IndexError", "boolean index did not match")
    ELSE [kind |-> "ok",
          vertexdata |-> [shape |-> <<num_vertices, 9>>,
                          vertices |-> vertices.data,
                          vnormals |-> vnormals.data,
                          colors |-> final[1]],
          triangles |-> triangles,
          fmin |-> None, fmax |-> None, pos |-> None, neg |-> None,
          warned |-> bg_mismatch]

\* The one value of a call made once: its result is bound, not recomputed
\* at each use.
ValueOf(results) == CHOOSE result \in results : TRUE

\* g holds the arguments: mesh, overlay, annot, bg_map, roi as the
\* resolvers take them, minval, maxval, invert, scale, color_mode.
prepare_geometry(g, uninit) ==
    ValueOf({
        IF m.kind = "raise" THEN m
        ELSE ValueOf({ValueOf({
            IF overlay_arr.kind = "raise" THEN overlay_arr
            ELSE IF bg_map_arr.kind = "raise" THEN bg_map_arr
            ELSE IF roi_arr.kind = "raise" THEN roi_arr
            ELSE IF annot_result.kind = "raise" THEN annot_result
            ELSE ValueOf({prepare_geometry_from_arrays(a, uninit) : a \in
                    {[vertices |-> m.vertices, faces |-> m.faces,
                      overlay |-> overlay_arr.value,
                      annot |-> IF annot_result.value = None THEN None
                                ELSE Some(annot_result.value[1].labels),
                      ctab |-> IF annot_result.value = None THEN None
                               ELSE Some(annot_result.value[1].ctab),
                      bg_map |-> bg_map_arr.value, roi |-> roi_arr.value,
                      minval |-> g.minval, maxval |-> g.maxval,
                      invert |-> g.invert, scale |-> g.scale,
                      color_mode |-> g.color_mode]}})
            : overlay_arr \in {resolve_overlay(g.overlay, n)},
              bg_map_arr \in {resolve_bg_map(g.bg_map, n)},
              roi_arr \in {resolve_roi(g.roi, n)},
              annot_result \in {resolve_annot(g.annot, n)}})
            : n \in {Some(m.vertices.shape[1])}})
        : m \in {resolve_mesh(g.mesh)}})

\* NoSignVisible never holding.
NoSignVisible_Never(pos, neg) == FALSE

\* `not pos and not neg`, after the flag of the sign not asked for is set
\* to False.
NoSignVisible(pos, neg) == ~pos /\ ~neg

\* g as for prepare_geometry, with minval and maxval named fthresh and fmax
\* by the caller.
prepare_and_validate_geometry(g, uninit) ==
    ValueOf({
        IF p.kind = "raise" THEN p
        ELSE IF g.overlay.tag = "none" THEN p
        ELSE LET pos0 == p.pos[1]
                 neg0 == p.neg[1]
                 neg  == IF g.color_mode = "POSITIVE" THEN FALSE ELSE neg0
                 pos  == IF g.color_mode = "NEGATIVE" THEN FALSE ELSE pos0
             IN
        IF g.color_mode = "POSITIVE" /\ ~pos0 /\ neg0
           THEN Raise("ValueError",
                      "no values to display with positive color_mode")
        ELSE IF g.color_mode = "NEGATIVE" /\ pos0 /\ ~neg0
             THEN Raise("ValueError",
                        "no values to display with negative color_mode")
        ELSE IF NoSignVisible(pos, neg)
             THEN Raise("ValueError", "no values to display")
        ELSE [p EXCEPT !.pos = Some(pos), !.neg = Some(neg)]
        : p \in {prepare_geometry(g, uninit)}})

(***************************************************************************)
(* The client: one call at a time.                                         *)
(***************************************************************************)
\* The numpy release the program runs on (1.x or 2.x) is fixed for the run.
\* No interactive viewer is open.
NoViewer == [phase |-> "none"]

\* No rendering function is in use.
NoSnap == [stage |-> "none"]

Init ==
    /\ pc = "idle"
    /\ op = ""
    /\ input = <<>>
    /\ output = <<>>
    /\ numpy \in {1, 2}
    /\ viewer = NoViewer
    /\ snap = NoSnap

\* The call `name(args)` ends with `result`.
Call(name, args, result) ==
    /\ pc' = "done"
    /\ op' = name
    /\ input' = args
    /\ output' = result
    /\ UNCHANGED <<numpy, viewer, snap>>

\* The client drops the result; nothing of the call is kept.
Return ==
    /\ pc = "done"
    /\ pc' = "idle"
    /\ op' = ""
    /\ input' = <<>>
    /\ output' = <<>>
    /\ UNCHANGED <<numpy, viewer, snap>>

(***************************************************************************)
(* Mesh files and mesh arrays the client passes.                           *)
(***************************************************************************)
\* The token int() reads as n.
Tok(n) == CHOOSE t \in DOMAIN IntTab : IntTab[t] = n

\* A vertex line with three coordinates, with one, with two.
VertexLines == {<<"0", "1", "0.5">>, <<"1">>, <<"1", "0">>}

IndexTokens == {"-1", "0", "2"}

\* Triangles <count 3, three indices>, a quad, a triangle short of an index.
FaceLines ==
    {<<"3", "0", "0", t>> : t \in IndexTokens}
    \cup {<<"4", "0", "1", "0", "1">>, <<"3", "0", "1">>}

\* Declared counts with the data lines that follow: the number of lines is
\* independent of the declared counts.
MeshBodies ==
    {[nv |-> Tok(nv), nf |-> Tok(nf), vl |-> vl, fl |-> fl] :
        nv \in 0..MaxVerts, nf \in 0..MaxFaces,
        vl \in SeqsOf(VertexLines, 0, MaxVerts),
        fl \in SeqsOf(FaceLines, 0, MaxFaces)}

\* Bodies with a count line that is not two natural numbers.
OddBodies ==
    {[nv |-> nv, nf |-> nf, vl |-> << <<"0", "1", "0.5">> >>,
      fl |-> << <<"3", "0", "0", "0">> >>] :
        nv \in {"-1", "x", "1"}, nf \in {"-1", "1"}}

OffFile(header, b) == header \o << <<b.nv, b.nf, "0">> >> \o b.vl \o b.fl

OffInputs ==
    {b @@ [file |-> OffFile(<< <<"OFF">> >>, b)] :
        b \in MeshBodies \cup OddBodies}
    \cup
    {[nv |-> "1", nf |-> "1", vl |-> << <<"0", "1", "0.5">> >>,
      fl |-> << <<"3", "0", "0", "0">> >>, file |-> f] :
        f \in {<<>>,
                << <<"OFF">> >>,
                << <<"OFF">>, <<"1">> >>,
                << <<"#", "c">>, <<>>, <<"off">>, <<"1", "1">>,
                   <<"0", "1", "0.5">>, <<"#", "c">>, <<"3", "0", "0", "0">> >>,
                << <<"NOFF">>, <<"1", "1", "0">>, <<"0", "1", "0.5">>,
                   <<"3", "0", "0", "0">> >>,
                << <<"OFF", "1", "1", "0">>, <<"0", "1", "0.5">>,
                   <<"3", "0", "0", "0">> >>}}

VtkHeader ==
    << <<"#", "vtk", "DataFile", "Version", "3.0">>, <<"title">>,
       <<"ASCII">>, <<"DATASET", "POLYDATA">> >>

VtkFile(header, b) ==
    header \o << <<"POINTS", b.nv, "float">> >> \o b.vl
           \o << <<"POLYGONS", b.nf, "0">> >> \o b.fl

\* Third lines and DATASET lines of a header, and the sections after it.
VtkFormatLines ==
    {<<"ASCII">>, <<"ascii">>, <<"BINARY">>, <<"title">>,
     <<"BINARY", "ASCII">>}

VtkDatasetLines ==
    {<< <<"DATASET", "POLYDATA">> >>, << <<"dataset", "polydata">> >>,
     << <<"DATASET", "UNSTRUCTURED_GRID">> >>, << >>}

VtkPointsSection == << <<"POINTS", "1", "float">>, <<"0", "1", "0.5">> >>

VtkSections ==
    {VtkPointsSection \o << <<"POLYGONS", "1", "4">>, <<"3", "0", "0", "0">> >>,
     VtkPointsSection,
     VtkPointsSection \o << <<"x">> >>,
     << <<"POLYGONS", "1", "4">>, <<"3", "0", "0", "0">> >>,
     << <<"POLYGONS", "1", "4">>, <<"3", "0", "0">> >>,
     << <<"POLYGONS", "1", "4">>, <<"3", "0", "0", "-1">> >>,
     << <<"POINTS", "x">> >>,
     << >>}

VtkHeaderFiles ==
    {<< VtkHeader[1], VtkHeader[2], fmt >> \o ds \o s :
        fmt \in VtkFormatLines, ds \in VtkDatasetLines, s \in VtkSections}

\* The tokens of a sequence of lines, and tokens laid out in lines of
\* `width` tokens (the last line may be shorter).
RECURSIVE Flatten(_)
Flatten(lines) ==
    IF lines = <<>> THEN <<>> ELSE lines[1] \o Flatten(Tail(lines))

Chunk(tokens, width) ==
    [r \in 1..((Len(tokens) + width - 1) \div width) |->
        SubSeq(tokens, (r - 1) * width + 1,
               IF r * width < Len(tokens) THEN r * width ELSE Len(tokens))]

\* nv vertices and nf triangles of a valid mesh, as one token sequence each.
PointTokens(nv) == Flatten([i \in 1..nv |-> <<Tok(i - 1), "1", "0.5">>])

PolygonTokens(nf, nv) ==
    Flatten([j \in 1..nf |-> <<"3", "0", "0", Tok((j - 1) % nv)>>])

\* The same meshes with the values of each section wrapped at every width.
VtkWrappedBodies ==
    {[nv |-> Tok(nv), nf |-> Tok(nf),
      vl |-> Chunk(PointTokens(nv), pw),
      fl |-> Chunk(PolygonTokens(nf, nv), fw)] :
        nv \in 1..MaxVerts, nf \in 0..MaxFaces,
        pw \in {1, 2, 3, 4, 6}, fw \in {1, 3, 4, 8}}

VtkInputs ==
    {b @@ [file |-> VtkFile(VtkHeader, b)] :
        b \in MeshBodies \cup OddBodies \cup VtkWrappedBodies}
    \cup
    {[nv |-> "1", nf |-> "1", vl |-> << <<"0", "1", "0.5">> >>,
      fl |-> << <<"3", "0", "0", "0">> >>, file |-> f] :
        f \in VtkHeaderFiles}
    \cup
    {[nv |-> "1", nf |-> "1", vl |-> << <<"0", "1", "0.5">> >>,
      fl |-> << <<"3", "0", "0", "0">> >>, file |-> f] :
        f \in {<<>>,
                VtkHeader,
                VtkHeader \o << <<"POINTS", "1", "float">>,
                                <<"0", "1", "0.5">> >>,
                VtkHeader \o << <<"POLYGONS", "1", "4">>,
                                <<"3", "0", "0", "0">> >>,
                VtkHeader \o << <<"polygons", "1", "4">>,
                                <<"3", "0", "0", "0">>,
                                <<"points", "1", "float">>,
                                <<"0", "1", "0.5">>,
                                <<"POINT_DATA", "1">> >>,
                VtkHeader \o << <<"POINTS">> >>,
                VtkHeader \o << <<"POINTS", "1", "float">>, <<"x">> >>,
                << VtkHeader[1], VtkHeader[2], <<"BINARY">>, VtkHeader[4] >>,
                << VtkHeader[1], VtkHeader[2], <<"title">>, VtkHeader[4] >>,
                << VtkHeader[1], VtkHeader[2], VtkHeader[3] >>,
                << VtkHeader[1], VtkHeader[2], VtkHeader[3],
                   <<"DATASET", "UNSTRUCTURED_GRID">> >>}}

PlyHeaderLines(nv, nf) ==
    << <<"ply">>, <<"format", "ascii", "1.0">>, <<"comment", "c">>,
       <<"element", "vertex", nv>>,
       <<"property", "float", "x">>, <<"property", "float", "y">>,
       <<"property", "float", "z">>,
       <<"element", "face", nf>>,
       <<"property", "list", "uchar", "int", "vertex_indices">>,
       <<"end_header">> >>

PlyFile(b) == PlyHeaderLines(b.nv, b.nf) \o b.vl \o b.fl

\* Headers with the format line after 0..3 comment lines, with a format
\* line of each kind and with none, before a mesh of one vertex and one
\* triangle.
PlyFormatLines ==
    {<< <<"format", "ascii", "1.0">> >>, << <<"FORMAT", "ASCII", "1.0">> >>,
     << <<"format", "binary_little_endian", "1.0">> >>, << >>}

PlyFormatFiles ==
    {SubSeq(PlyHeaderLines("1", "1"), 1, 1)
        \o [k \in 1..c |-> <<"comment", "c">>] \o fmt
        \o SubSeq(PlyHeaderLines("1", "1"), 4, 10)
        \o << <<"0", "1", "0.5">>, <<"3", "0", "0", "0">> >> :
        c \in 0..3, fmt \in PlyFormatLines}

PlyInputs ==
    {b @@ [file |-> PlyFile(b)] :
        b \in MeshBodies \cup OddBodies}
    \cup
    {[nv |-> "1", nf |-> "1", vl |-> << <<"0", "1", "0.5">> >>,
      fl |-> << <<"3", "0", "0", "0">> >>, file |-> f] :
        f \in PlyFormatFiles}
    \cup
    {[nv |-> "1", nf |-> "1", vl |-> << <<"0", "1", "0.5">> >>,
      fl |-> << <<"3", "0", "0", "0">> >>, file |-> f] :
        f \in {<<>>,
                << <<"PLY">> >>,
                << <<"ply">>, <<"format", "binary_little_endian", "1.0">>,
                   <<"element", "vertex", "1">>, <<"end_header">> >>,
                << <<"ply">>, <<"format", "ascii", "1.0">>,
                   <<"element", "face", "0">>, <<"end_header">> >>,
                << <<"ply">>, <<"format", "ascii", "1.0">>,
                   <<"element", "vertex", "0">>, <<"end_header">> >>,
                << <<"ply">>, <<"format", "ascii", "1.0">>,
                   <<"element", "vertex", "0">>,
                   <<"property", "float", "x">>,
                   <<"element", "face", "0">>, <<"end_header">> >>,
                << <<"ply">>, <<"format", "ascii", "1.0">>,
                   <<"element", "vertex", "1">>,
                   <<"property", "float", "nx">>,
                   <<"property", "float", "z">>,
                   <<"property", "float", "y">>,
                   <<"property", "float", "x">>,
                   <<"element", "face", "1">>,
                   <<"property", "list", "uchar", "int", "vertex_indices">>,
                   <<"element", "edge", "0">>,
                   <<"property", "int", "x">>,
                   <<"end_header">>, <<>>,
                   <<"9", "0.5", "1", "0">>, <<"3", "0", "0", "0">> >>}}

\* What a path may name: a text file, or a FreeSurfer binary surface with
\* the vertex and face arrays it stores.
EmptyArray == [shape |-> <<0, 3>>, data |-> <<>>]

TextContent(file) ==
    [fmt |-> "text", lines |-> file, coords |-> EmptyArray,
     faces |-> EmptyArray]

FloatRow == <<<<0, 1>>, <<1, 1>>, <<1, 2>>>>

VertexArrays ==
    {[shape |-> <<n, 3>>, data |-> [r \in 1..n |-> FloatRow]] :
        n \in 0..MaxVerts}

FaceTriples == {<<0, 0, i>> : i \in {-1, 0, 1, 2, 4}}

FaceArrays ==
    UNION {{[shape |-> <<m, 3>>, data |-> d] : d \in [1..m -> FaceTriples]} :
              m \in 0..MaxFaces}

SurfContents ==
    {[fmt |-> "fs_surf", lines |-> <<>>, coords |-> v, faces |-> f] :
        v \in VertexArrays, f \in FaceArrays}

\* The text files on disk: those with at most one vertex line and one face
\* line.
SmallText(inputs) ==
    {TextContent(i.file) : i \in {x \in inputs : Len(x.vl) <= 1
                                                 /\ Len(x.fl) <= 1}}

DiskContents ==
    SmallText(OffInputs) \cup SmallText(VtkInputs) \cup SmallText(PlyInputs)
    \cup SurfContents

MeshPaths ==
    {<<"m", "off">>, <<"m", "OFF">>, <<"m", "vtk">>, <<"m", "ply">>,
     <<"lh", "surf", "gii">>, <<"m", "gii">>, <<"lh", "white">>,
     <<"surface">>, <<"m", "stl">>}

\* Arrays of another shape than (N, 3) / (M, 3).
OddVertexArrays == {[shape |-> <<1, 2>>, data |-> << <<<<0, 1>>, <<1, 1>>>> >>]}
OddFaceArrays ==
    {[shape |-> <<1, 4>>, data |-> << <<0, 0, 0, 0>> >>],
     [shape |-> <<0>>, data |-> <<>>]}

MeshArgs ==
    {[tag |-> "str", path |-> p, content |-> c, items |-> <<>>] :
        p \in MeshPaths, c \in DiskContents}
    \cup
    {[tag |-> "tuple", path |-> <<>>, content |-> TextContent(<<>>),
      items |-> <<v, f>>] :
        v \in VertexArrays \cup OddVertexArrays,
        f \in FaceArrays \cup OddFaceArrays}
    \cup
    {[tag |-> "tuple", path |-> <<>>, content |-> TextContent(<<>>),
      items |-> <<v, f, f>>] : v \in {EmptyArray}, f \in {EmptyArray}}
    \cup
    {[tag |-> "other", path |-> <<>>, content |-> TextContent(<<>>),
      items |-> <<>>]}

(***************************************************************************)
(* Calls of the mesh readers and of resolve_mesh.                          *)
(***************************************************************************)
ReadOff ==
    /\ pc = "idle"
    /\ \E i \in OffInputs : Call("read_off", i, read_off(i.file))

ReadVtk ==
    /\ pc = "idle"
    /\ \E i \in VtkInputs :
          Call("read_vtk_ascii_polydata", i, read_vtk_ascii_polydata(i.file))

ReadPly ==
    /\ pc = "idle"
    /\ \E i \in PlyInputs : Call("read_ply_ascii", i, read_ply_ascii(i.file))

ReadMesh ==
    /\ pc = "idle"
    /\ \E p \in MeshPaths, c \in DiskContents :
          Call("read_mesh", [tag |-> "str", path |-> p, content |-> c,
                             items |-> <<>>],
               read_mesh(p, c))

ResolveMesh ==
    /\ pc = "idle"
    /\ \E m \in MeshArgs : Call("resolve_mesh", m, resolve_mesh(m))

NextMesh == ReadOff \/ ReadVtk \/ ReadPly \/ ReadMesh \/ ResolveMesh \/ Return

SpecMesh == Init /\ [][NextMesh]_vars

(***************************************************************************)
(* Arrays and files the client passes to the resolvers.                    *)
(***************************************************************************)
\* A float array of shape (n,) for every n up to one more than MaxVerts.
FloatArrays(values) ==
    UNION {{[dtype |-> "float64", shape |-> <<n>>, data |-> d] :
               d \in [1..n -> values]} : n \in 0..(MaxVerts + 1)}

\* Float arrays that are not 1-D: a scalar, a column, a row pair.
OddFloatArrays ==
    {[dtype |-> "float64", shape |-> <<>>, data |-> << <<1, 2>> >>],
     [dtype |-> "float64", shape |-> <<1, 1>>, data |-> << <<1, 2>> >>],
     [dtype |-> "float64", shape |-> <<1, 2>>,
      data |-> << <<1, 2>>, <<0, 1>> >>]}

BoolArrays ==
    UNION {{[dtype |-> "bool", shape |-> <<n>>, data |-> d] :
               d \in [1..n -> BOOLEAN]} : n \in 0..(MaxVerts + 1)}
    \cup {[dtype |-> "bool", shape |-> <<1, 1>>, data |-> <<TRUE>>]}

LabelArrays ==
    UNION {{[dtype |-> "int64", shape |-> <<n>>, data |-> d] :
               d \in [1..n -> {-1, 0, 1, 2}]} : n \in 0..MaxVerts}
    \cup {[dtype |-> "int64", shape |-> <<1, 1>>, data |-> <<0>>],
          [dtype |-> "int64", shape |-> <<>>, data |-> <<0>>]}

\* A color table of two labels, rows (R, G, B, T, id), on the 0-255 scale
\* and on the 0-1 scale.
ColorTables ==
    {[dtype |-> "int64", shape |-> <<2, 5>>,
      data |-> << <<255, 0, 0, 0, 0>>, <<0, 128, 64, 0, 1>> >>],
     [dtype |-> "int64", shape |-> <<2, 5>>,
      data |-> << <<1, 0, 0, 0, 0>>, <<0, 1, 1, 0, 1>> >>]}

NoArray == [dtype |-> "float64", shape |-> <<0>>, data |-> <<>>]
NoLabels == [dtype |-> "int64", shape |-> <<0>>, data |-> <<>>]
NoTable == [dtype |-> "int64", shape |-> <<0, 5>>, data |-> <<>>]

NoFile ==
    [fmt |-> "", arr |-> NoArray, ids |-> <<>>, labels |-> NoLabels,
     ctab |-> NoTable, names |-> <<>>]

ScalarFormats == {"mgh", "morph", "txt", "npy", "npz", "gii"}

\* The files on disk: scalar files of each format, label files,
\* annotation files.
ScalarFiles ==
    {[NoFile EXCEPT !.fmt = f, !.arr = a] :
        f \in ScalarFormats,
        a \in {x \in FloatArrays({<<0, 1>>, <<1, 2>>}) :
                  x.shape[1] >= 1 /\ x.data[1] = <<0, 1>>}}

LabelFiles ==
    {[NoFile EXCEPT !.fmt = "label", !.ids = ids] :
        ids \in {<<>>, <<0>>, <<1>>, <<-1>>, <<0, MaxVerts>>}}

AnnotFiles ==
    {[NoFile EXCEPT !.fmt = "annot", !.labels = l, !.ctab = c,
                    !.names = <<"a", "b">>] :
        l \in {x \in LabelArrays : Len(x.shape) = 1
                                    /\ \A k \in 1..Len(x.data) : x.data[k] = 0},
        c \in ColorTables}

OverlayPaths ==
    {<<"o", "mgh">>, <<"o", "MGZ">>, <<"o", "txt">>, <<"o", "csv">>,
     <<"o", "NPY">>, <<"o", "npz">>, <<"o", "gii">>, <<"o", "func", "gii">>,
     <<"o", "label", "gii">>, <<"lh", "curv">>, <<"curv">>,
     <<"lh", "cortex", "label">>, <<"o", "FUNC", "GII">>,
     <<"o", "txt", "mgh">>, <<"o", "mgh", "txt">>, <<"", "mgh">>,
     <<"func", "gii">>}

\* The argument of a resolver: None, a path with the file it names, an
\* array.
NoneArg == [tag |-> "none", path |-> <<>>, content |-> NoFile, arr |-> NoArray]

PathArgs(paths, files) ==
    {[NoneArg EXCEPT !.tag = "str", !.path = p, !.content = c] :
        p \in paths, c \in files}

ArrayArgs(arrays) == {[NoneArg EXCEPT !.tag = "array", !.arr = a] : a \in arrays}

ScalarArgs ==
    {NoneArg}
    \cup PathArgs(OverlayPaths, ScalarFiles \cup LabelFiles)
    \cup ArrayArgs(FloatArrays({<<0, 1>>, <<1, 2>>}) \cup OddFloatArrays)

AnnotArgs ==
    {[tag |-> "none", content |-> NoFile, items |-> <<>>],
     [tag |-> "other", content |-> NoFile, items |-> <<>>]}
    \cup {[tag |-> "str", content |-> c, items |-> <<>>] :
             c \in AnnotFiles \cup LabelFiles}
    \cup {[tag |-> "tuple", content |-> NoFile, items |-> <<l, c>>] :
             l \in LabelArrays, c \in ColorTables}
    \cup {[tag |-> "tuple", content |-> NoFile, items |-> <<l, c, <<"a", "b">> >>] :
             l \in LabelArrays, c \in ColorTables}
    \cup {[tag |-> "tuple", content |-> NoFile, items |-> <<l>>] :
             l \in LabelArrays}

\* n_vertices: None or a vertex count.
VertexCounts == {None} \cup {Some(n) : n \in 0..MaxVerts}

(***************************************************************************)
(* Calls of the resolvers.                                                 *)
(***************************************************************************)
ResolveOverlay ==
    /\ pc = "idle"
    /\ \E x \in ScalarArgs, n \in VertexCounts :
          Call("resolve_overlay", [arg |-> x, n_vertices |-> n],
               resolve_overlay(x, n))

ResolveBgMap ==
    /\ pc = "idle"
    /\ \E x \in ScalarArgs, n \in VertexCounts :
          Call("resolve_bg_map", [arg |-> x, n_vertices |-> n],
               resolve_bg_map(x, n))

\* A ROI is None, a path, a boolean array or an array of numbers.
ResolveRoi ==
    /\ pc = "idle"
    /\ \E n \in VertexCounts :
          \/ \E x \in ScalarArgs :
                Call("resolve_roi", [arg |-> x, n_vertices |-> n],
                     resolve_roi(x, n))
          \/ \E x \in ArrayArgs(BoolArrays) :
                Call("resolve_roi", [arg |-> x, n_vertices |-> n],
                     resolve_roi(x, n))

ResolveAnnot ==
    /\ pc = "idle"
    /\ \E x \in AnnotArgs, n \in VertexCounts :
          Call("resolve_annot", [arg |-> x, n_vertices |-> n],
               resolve_annot(x, n))

NextResolve ==
    ResolveOverlay \/ ResolveBgMap \/ ResolveRoi \/ ResolveAnnot \/ Return

SpecResolve == Init /\ [][NextResolve]_vars

(***************************************************************************)
(* Arrays and arguments the client passes to the colormap primitives and   *)
(* to the preparer.                                                        *)
(***************************************************************************)
\* Overlay values: one of each sign, and NaN.
OverlayValues == {Num(-2), <<1, 2>>, Num(2)}

\* Per-vertex float arrays of every length up to MaxVerts.
ValueArrays ==
    {x \in FloatArrays(OverlayValues \cup {NaN}) : x.shape[1] <= MaxVerts}

Thresholds == {Num(-1), Num(0), <<1, 2>>, Num(1), Num(2)}

ColorModes == {"BOTH", "POSITIVE", "NEGATIVE"}

\* What the rows np.empty leaves unwritten may hold.
Uninit == {Num(0), <<1, 2>>, Num(2), NaN}

\* What is left of np.empty after binary_color(values, ...): something only
\* where a row stays unwritten.
UninitOf(values) ==
    IF \E k \in 1..Len(values.data) : IsNaN(values.data[k]) THEN Uninit
    ELSE {Num(0)}

\* The same for the background map of a call, an array or None.
UninitFor(bg_map) == IF bg_map = None THEN {Num(0)} ELSE UninitOf(bg_map[1])

\* A mesh of n vertices in distinct places, with one face over its first
\* vertices (a proper triangle from three vertices on).
MeshVertices(n) ==
    [shape |-> <<n, 3>>,
     data |-> [i \in 1..n |-> <<Num(i - 1), Num((i \div 2) % 2), Num(0)>>]]

MeshFaces(n) ==
    [shape |-> <<1, 3>>,
     data |-> << <<0, IF n >= 2 THEN 1 ELSE 0, IF n >= 3 THEN 2 ELSE 0>> >>]

MeshSizes == 1..MaxVerts

\* The arguments of prepare_geometry_from_arrays at their defaults.
ArrayDefaults(n) ==
    [vertices |-> MeshVertices(n), faces |-> MeshFaces(n),
     overlay |-> None, annot |-> None, ctab |-> None, bg_map |-> None,
     roi |-> None, minval |-> None, maxval |-> None, invert |-> FALSE,
     scale |-> <<37, 20>>, color_mode |-> "BOTH"]

OverlaysOf(n) ==
    {Some(x) : x \in {y \in FloatArrays(OverlayValues) : y.shape[1] = n}}

BgMapsOf(n) ==
    {Some(x) : x \in {y \in FloatArrays({Num(-1), Num(1)}) : y.shape[1] = n}}

RoisOf(n) == {Some(x) : x \in {y \in BoolArrays : y.shape = <<n>>}}

AnnotsOf(n) == {Some(x) : x \in {y \in LabelArrays : y.shape = <<n>>}}

\* An overlay with thresholds and color mode; an inverted overlay.
OverlayCalls(n) ==
    {[ArrayDefaults(n) EXCEPT !.overlay = o, !.minval = lo, !.maxval = hi,
                              !.color_mode = cm] :
        o \in OverlaysOf(n),
        lo \in {None, Some(<<1, 2>>), Some(Num(1))},
        hi \in {None, Some(Num(-1)), Some(<<1, 2>>), Some(Num(1)),
                Some(Num(2))},
        cm \in ColorModes}
    \cup
    {[ArrayDefaults(n) EXCEPT !.overlay = o, !.color_mode = cm,
                              !.invert = TRUE] :
        o \in OverlaysOf(n), cm \in ColorModes}

\* A background map that alternates in sign from vertex to vertex.
AlternatingBgMap(n) ==
    Some([dtype |-> "float64", shape |-> <<n>>,
          data |-> [i \in 1..n |-> Num(2 * (i % 2) - 1)]])

\* An overlay under a ROI, over a background map.
RoiCalls(n) ==
    {[ArrayDefaults(n) EXCEPT !.overlay = o, !.roi = r, !.bg_map = b,
                              !.color_mode = cm] :
        o \in OverlaysOf(n), r \in RoisOf(n),
        b \in {None, AlternatingBgMap(n)}, cm \in {"BOTH", "POSITIVE"}}

\* An annotation, alone, under a ROI, over a background map, with an overlay.
AnnotCalls(n) ==
    {[ArrayDefaults(n) EXCEPT !.annot = l, !.ctab = c, !.roi = r,
                              !.bg_map = b] :
        l \in AnnotsOf(n), c \in {Some(x) : x \in ColorTables},
        r \in {None,
               Some([dtype |-> "bool", shape |-> <<n>>,
                     data |-> [i \in 1..n |-> i # 1]]),
               Some([dtype |-> "bool", shape |-> <<n>>,
                     data |-> [i \in 1..n |-> i = 1]])},
        b \in {None, AlternatingBgMap(n)}}
    \cup
    {[ArrayDefaults(n) EXCEPT !.annot = l, !.ctab = c, !.overlay = o] :
        l \in {x \in AnnotsOf(n) : \A k \in 1..n : x[1].data[k] = 0}
               \cup {Some([dtype |-> "int64", shape |-> <<n + 1>>,
                           data |-> [i \in 1..(n + 1) |-> 0]])},
        c \in {Some(x) : x \in ColorTables \cup {NoTable}},
        o \in {Some([dtype |-> "float64", shape |-> <<n>>,
                     data |-> [i \in 1..n |-> Num(2)]])}}

\* Arrays whose length is not the vertex count, a background map with a NaN,
\* a face that indexes no vertex, an empty mesh, an empty color table.
OddCalls(n) ==
    LET d == ArrayDefaults(n)
        longer  == CHOOSE o \in OverlaysOf(n + 1) : TRUE
        overlay == CHOOSE o \in OverlaysOf(n) : TRUE
        labels  == CHOOSE l \in AnnotsOf(n) : TRUE
        table   == CHOOSE c \in ColorTables : TRUE
    IN  {[d EXCEPT !.overlay = longer],
         [d EXCEPT !.bg_map = longer],
         [d EXCEPT !.bg_map = longer, !.overlay = overlay],
         [d EXCEPT !.bg_map = longer, !.annot = labels, !.ctab = Some(table)],
         [d EXCEPT !.bg_map = Some([dtype |-> "float64", shape |-> <<n>>,
                                    data |-> [i \in 1..n |-> NaN]])],
         [d EXCEPT !.overlay = Some([dtype |-> "float64", shape |-> <<n>>,
                                     data |-> [i \in 1..n |->
                                                  IF i = 1 THEN NaN
                                                  ELSE Num(2)]])],
         [d EXCEPT !.roi = Some([dtype |-> "bool", shape |-> <<n + 1>>,
                                 data |-> [i \in 1..(n + 1) |-> i = 1]])],
         [d EXCEPT !.roi = Some([dtype |-> "bool", shape |-> <<n + 1>>,
                                 data |-> [i \in 1..(n + 1) |-> TRUE]])],
         [d EXCEPT !.annot = Some([dtype |-> "int64", shape |-> <<n + 1>>,
                                   data |-> [i \in 1..(n + 1) |-> 0]]),
                   !.ctab = Some(table)],
         [d EXCEPT !.annot = labels, !.ctab = Some(NoTable)],
         [d EXCEPT !.annot = labels],
         [d EXCEPT !.faces = [shape |-> <<1, 3>>, data |-> << <<0, 0, n>> >>]],
         [d EXCEPT !.faces = [shape |-> <<0, 3>>, data |-> <<>>]],
         [d EXCEPT !.vertices = MeshVertices(0),
                   !.faces = [shape |-> <<0, 3>>, data |-> <<>>]]}

ArrayCalls ==
    UNION {OverlayCalls(n) \cup RoiCalls(n) \cup AnnotCalls(n) \cup OddCalls(n) :
              n \in MeshSizes}

\* The same calls through prepare_geometry: the mesh as a (vertices, faces)
\* tuple, each array as the argument of its resolver.
ArgOf(x) ==
    IF x = None THEN NoneArg ELSE [NoneArg EXCEPT !.tag = "array", !.arr = x[1]]

GeometryOf(a) ==
    [mesh |-> [tag |-> "tuple", path |-> <<>>, content |-> TextContent(<<>>),
               items |-> <<a.vertices, a.faces>>],
     overlay |-> ArgOf(a.overlay), bg_map |-> ArgOf(a.bg_map),
     roi |-> ArgOf(a.roi),
     annot |-> IF a.annot = None
                  THEN [tag |-> "none", content |-> NoFile, items |-> <<>>]
               ELSE IF a.ctab = None
                  THEN [tag |-> "tuple", content |-> NoFile,
                        items |-> <<a.annot[1]>>]
               ELSE [tag |-> "tuple", content |-> NoFile,
                     items |-> <<a.annot[1], a.ctab[1]>>],
     minval |-> a.minval, maxval |-> a.maxval, invert |-> a.invert,
     scale |-> a.scale, color_mode |-> a.color_mode]

\* Calls with files: an OFF mesh of one vertex, a FreeSurfer surface, a
\* morph overlay, a label ROI, an MGH background map, an annotation.
FileCalls ==
    LET g == GeometryOf(ArrayDefaults(1))
        one(x) == [dtype |-> "float64", shape |-> <<1>>, data |-> <<x>>]
        off == [tag |-> "str", path |-> <<"m", "off">>,
                content |-> TextContent(<< <<"OFF">>, <<"1", "1", "0">>,
                                           <<"0", "0", "0">>,
                                           <<"3", "0", "0", "0">> >>),
                items |-> <<>>]
        surf(i) == [tag |-> "str", path |-> <<"lh", "white">>,
                    content |-> [fmt |-> "fs_surf", lines |-> <<>>,
                                 coords |-> MeshVertices(1),
                                 faces |-> [shape |-> <<1, 3>>,
                                            data |-> << <<0, 0, i>> >>]],
                    items |-> <<>>]
        curv(x) == [NoneArg EXCEPT !.tag = "str", !.path = <<"lh", "curv">>,
                       !.content = [NoFile EXCEPT !.fmt = "morph",
                                                  !.arr = one(x)]]
        mgh(x) == [NoneArg EXCEPT !.tag = "str", !.path = <<"o", "mgh">>,
                      !.content = [NoFile EXCEPT !.fmt = "mgh",
                                                 !.arr = one(x)]]
        label(ids) == [NoneArg EXCEPT !.tag = "str",
                          !.path = <<"lh", "cortex", "label">>,
                          !.content = [NoFile EXCEPT !.fmt = "label",
                                                     !.ids = ids]]
        annot == [tag |-> "str",
                  content |-> [NoFile EXCEPT
                                  !.fmt = "annot",
                                  !.labels = [dtype |-> "int64",
                                              shape |-> <<1>>, data |-> <<1>>],
                                  !.ctab = CHOOSE c \in ColorTables : TRUE,
                                  !.names = <<"a", "b">>],
                  items |-> <<>>]
    IN  {[g EXCEPT !.mesh = ms, !.overlay = o, !.bg_map = b, !.roi = r] :
            ms \in {off, surf(0), surf(1)},
            o \in {NoneArg, curv(Num(2)), curv(Num(-1))},
            b \in {NoneArg, mgh(Num(-1))},
            r \in {NoneArg, label(<<>>), label(<<0>>), label(<<1>>)}}
        \cup {[g EXCEPT !.annot = annot, !.roi = r] :
                 r \in {NoneArg, label(<<>>), label(<<0>>)}}
        \cup {[g EXCEPT !.mesh = [tag |-> "other", path |-> <<>>,
                                  content |-> TextContent(<<>>),
                                  items |-> <<>>]]}

GeometryCalls == {GeometryOf(a) : a \in ArrayCalls} \cup FileCalls

(***************************************************************************)
(* The client calls a colormap primitive or a preparer.  The client keeps  *)
(* the array it passes in: `after` is what that array holds when the call  *)
(* is over.                                                                *)
(***************************************************************************)
MaskSign ==
    /\ pc = "idle"
    /\ \E v \in ValueArrays, cm \in ColorModes :
          Call("mask_sign", [values |-> v, color_mode |-> cm],
               [kind |-> "ok", value |-> mask_sign(v, cm), after |-> v])

RescaleOverlay ==
    /\ pc = "idle"
    /\ \E v \in ValueArrays, lo \in Thresholds, hi \in Thresholds :
          Call("rescale_overlay", [values |-> v, minval |-> lo, maxval |-> hi],
               rescale_overlay(v, lo, hi))

\* Single values on the boundaries of heat_color's ranges and inside each.
HeatValues ==
    {Num(-2), Num(-1), <<-2, 3>>, <<-1, 3>>, <<-1, 6>>, Num(0), <<1, 6>>,
     <<1, 3>>, <<2, 3>>, Num(1), Num(2), NaN}

HeatArrays ==
    {[dtype |-> "float64", shape |-> <<1>>, data |-> <<v>>] : v \in HeatValues}

HeatColor ==
    /\ pc = "idle"
    /\ \E v \in ValueArrays \cup HeatArrays, inv \in BOOLEAN :
          Call("heat_color", [values |-> v, invert |-> inv],
               [kind |-> "ok", value |-> heat_color(v, inv), after |-> v])

BinaryColor ==
    /\ pc = "idle"
    /\ \E v \in ValueArrays, th \in Thresholds :
       \E u \in UninitOf(v) :
          Call("binary_color",
               [values |-> v, thres |-> th, color_low |-> <<1, 2>>,
                color_high |-> <<33, 100>>],
               [kind |-> "ok",
                value |-> binary_color(v, th, <<1, 2>>, <<33, 100>>, u),
                after |-> v])

MaskLabel ==
    /\ pc = "idle"
    /\ \E v \in ValueArrays \cup OddFloatArrays,
          f \in {[path |-> <<>>, content |-> NoFile]}
                \cup {[path |-> <<"lh", "cortex", "label">>, content |-> c] :
                         c \in LabelFiles \cup {NoFile}} :
          Call("mask_label", [values |-> v, labelpath |-> f.path,
                              content |-> f.content],
               mask_label(v, f.path, f.content))

PrepareFromArrays ==
    /\ pc = "idle"
    /\ \E a \in ArrayCalls :
       \E u \in UninitFor(a.bg_map) :
          Call("prepare_geometry_from_arrays", [args |-> a, uninit |-> u],
               prepare_geometry_from_arrays(a, u))

PrepareGeometry ==
    /\ pc = "idle"
    /\ \E g \in GeometryCalls :
       \E u \in UninitOf(g.bg_map.arr) :
          Call("prepare_geometry", [args |-> g, uninit |-> u],
               prepare_geometry(g, u))

PrepareAndValidate ==
    /\ pc = "idle"
    /\ \E g \in GeometryCalls :
       \E u \in UninitOf(g.bg_map.arr) :
          Call("prepare_and_validate_geometry", [args |-> g, uninit |-> u],
               prepare_and_validate_geometry(g, u))

\* Overlays to estimate thresholds from: arrays with zeros and NaN, and
\* morph files.
EstimateArgs ==
    ArrayArgs({x \in FloatArrays({Num(0), Num(-2), <<1, 2>>, NaN}) :
                  x.shape[1] <= MaxVerts})
    \cup PathArgs({<<"lh", "curv">>},
                  {f \in ScalarFiles : f.fmt \in {"morph", "mgh"}})

EstimateThresholds ==
    /\ pc = "idle"
    /\ \E o \in EstimateArgs :
       \E lo \in {None, Some(<<1, 2>>)}, hi \in {None, Some(Num(1))} :
          Call("estimate_overlay_thresholds",
               [overlay |-> o, minval |-> lo, maxval |-> hi],
               estimate_overlay_thresholds(o, lo, hi))

NextColor ==
    \/ MaskSign \/ RescaleOverlay \/ HeatColor \/ BinaryColor \/ MaskLabel
    \/ EstimateThresholds
    \/ PrepareFromArrays \/ PrepareGeometry \/ PrepareAndValidate \/ Return

SpecColor == Init /\ [][NextColor]_vars

(***************************************************************************)
(* geometry/overlay_io.py: read_txt                                        *)
(*                                                                         *)
(* A line of a scalar text file is the sequence of its comma-separated     *)
(* fields, each the sequence of its whitespace-separated tokens:           *)
(* "1, x y" is << <<"1">>, <<"x", "y">> >>, ",5" is << <<>>, <<"5">> >> and *)
(* a blank line is << <<>> >>.                                             *)
(***************************************************************************)
\* An error raised while line `lineno` was read; `raw` is that line.
RaiseAt(exc, msg, lineno, raw) ==
    [kind |-> "raise", exc |-> exc, msg |-> msg, lineno |-> lineno,
     raw |-> raw]

\* `not line`, for the stripped line.
IsBlank(line) == Len(line) = 1 /\ line[1] = <<>>

HashTokens == {"#", "#1"}

\* line.startswith("#")
IsComment(line) == line[1] # <<>> /\ line[1][1] \in HashTokens

\* arr == arr.astype(np.int32), element by element.
IsWhole(x) == ~IsNaN(x) /\ x[2] = 1

\* The array built from the parsed values.
TxtArray(values) ==
    [dtype |-> IF \A k \in 1..Len(values) : IsWhole(values[k])
                  THEN "int32" ELSE "float32",
     shape |-> <<Len(values)>>, data |-> values]

\* The loop of read_txt from line `lineno` on, `values` parsed so far.
RECURSIVE TxtScan(_, _, _)
TxtScan(lines, lineno, values) ==
    IF lineno > Len(lines) THEN
        IF values = <<>>
           THEN RaiseAt("ValueError", "No numeric values found", 0, <<>>)
           ELSE [kind |-> "ok", value |-> TxtArray(values)]
    ELSE LET line == lines[lineno] IN
    IF IsBlank(line) \/ IsComment(line)
       THEN TxtScan(lines, lineno + 1, values)
    \* line.split(",")[0].split()[0] of a line that starts with a comma
    ELSE IF line[1] = <<>>
       THEN RaiseAt("IndexError", "list index out of range", lineno, line)
    ELSE IF IsFloat(line[1][1])
       THEN TxtScan(lines, lineno + 1, Append(values, FloatTab[line[1][1]]))
    ELSE IF lineno = 1 THEN TxtScan(lines, lineno + 1, values)
    ELSE RaiseAt("ValueError", "Could not parse numeric value", lineno, line)

read_txt(lines) == TxtScan(lines, 1, <<>>)

(***************************************************************************)
(* geometry/overlay_io.py: read_npy, read_npz                              *)
(*                                                                         *)
(* A .npy file is the array it stores; a .npz archive is the sequence of   *)
(* its <<key, array>> entries in the order they were saved.                *)
(***************************************************************************)
\* np.squeeze: the axes of length 1 are dropped, the elements stay.
np_squeeze(arr) ==
    [dtype |-> arr.dtype,
     shape |-> SelectSeq(arr.shape, LAMBDA n : n # 1),
     data |-> arr.data]

\* The checks both readers apply to the squeezed array.
CheckedVector(arr, not_1d, empty) ==
    IF Len(arr.shape) # 1 THEN Raise("ValueError", not_1d)
    ELSE IF Len(arr.data) = 0 THEN Raise("ValueError", empty)
    ELSE [kind |-> "ok", value |-> arr]

read_npy(stored) ==
    CheckedVector(np_squeeze(stored), "expected a 1-D per-vertex array",
                  "contains an empty array")

\* The key read_npz would use if it took the first array always.
NpzKey_First(keys) == keys[1]

\* `"data" if "data" in keys else keys[0]`
NpzKey(keys) == IF "data" \in Range(keys) THEN "data" ELSE keys[1]

read_npz(archive) ==
    LET keys == [k \in 1..Len(archive) |-> archive[k][1]] IN
    IF keys = <<>> THEN Raise("ValueError", "contains no arrays")
    ELSE LET key == NpzKey(keys)
             arr == archive[Min({k \in 1..Len(keys) : keys[k] = key})][2]
         IN  CheckedVector(np_squeeze(arr), "expected a 1-D per-vertex array",
                           "is empty")

(***************************************************************************)
(* Calls of the scalar file readers.                                       *)
(***************************************************************************)
TxtLines ==
    {<< <<"1">> >>, << <<"0.5">> >>, << <<"x">> >>, << <<>> >>,
     << <<"#", "x">> >>, << <<"1">>, <<"x">> >>, << <<"x">>, <<"1">> >>,
     << <<>>, <<"5">> >>, << <<"1", "x">> >>}

\* A header line and up to MaxVerts lines of values.
TxtFiles == SeqsOf(TxtLines, 0, MaxVerts + 1)

ReadTxt ==
    /\ pc = "idle"
    /\ \E lines \in TxtFiles : Call("read_txt", lines, read_txt(lines))

\* Stored arrays: vectors, columns, rows, a scalar, tables, empty arrays.
StoredShapes ==
    {<<>>, <<1, 1>>, <<0, 3>>, <<1, 0>>, <<2, 2>>}
    \cup {<<n>> : n \in 0..MaxVerts}
    \cup {<<n, 1>> : n \in 2..MaxVerts} \cup {<<1, n>> : n \in 2..MaxVerts}

StoredArrays ==
    UNION {{[dtype |-> "float32", shape |-> s, data |-> d] :
               d \in [1..Product(s) -> {<<0, 1>>, <<1, 2>>}]} :
           s \in StoredShapes}

\* Arrays told apart by their first element, for the entries of an archive.
ArchiveArrays ==
    {a \in StoredArrays :
        /\ a.shape \in {<<>>, <<1>>, <<2>>, <<2, 1>>, <<0>>, <<2, 2>>}
        /\ \A k \in 2..Len(a.data) : a.data[k] = <<0, 1>>}

NpzKeys == {"data", "arr_0", "other"}

NpzArchives ==
    {<<>>}
    \cup {<< <<k, a>> >> : k \in NpzKeys, a \in ArchiveArrays}
    \cup {archive \in {<< <<k1, a1>>, <<k2, a2>> >> :
                            k1 \in NpzKeys, k2 \in NpzKeys,
                            a1 \in ArchiveArrays, a2 \in ArchiveArrays} :
              archive[1][1] # archive[2][1]}

ReadNpy ==
    /\ pc = "idle"
    /\ \E stored \in StoredArrays : Call("read_npy", stored, read_npy(stored))

ReadNpz ==
    /\ pc = "idle"
    /\ \E archive \in NpzArchives :
          Call("read_npz", archive, read_npz(archive))

NextOverlayIO == ReadTxt \/ ReadNpy \/ ReadNpz \/ Return

SpecOverlayIO == Init /\ [][NextOverlayIO]_vars

(***************************************************************************)
(* cli/whippersnap.py: show_window and its render loop                     *)
(*                                                                         *)
(* viewer holds the state show_window and its callbacks share: the values  *)
(* of the configuration panel (None without a panel), the module globals   *)
(* current_fthresh_ and current_fmax_, the arguments of the latest         *)
(* prepare_geometry call, meshdata and triangles, the buffers setup_shader *)
(* uploaded, the close flag of the GLFW window, _quitting, and what the    *)
(* latest timer tick did (forgotten once the panel changes).               *)
(***************************************************************************)
\* Values the panel's sliders and text boxes hold.
PanelValues == {Num(-1), <<1, 2>>, Num(2)}

PanelPairs == {<<Some(lo), Some(hi)>> : lo \in PanelValues, hi \in PanelValues}

\* What show_window was given: a mesh with an overlay of both signs, or
\* with an annotation.
ViewerScenes ==
    LET d == ArrayDefaults(MaxVerts)
    IN  {GeometryOf([d EXCEPT !.overlay = o]) :
            o \in {x \in OverlaysOf(MaxVerts) :
                      /\ x[1].data[1] = Num(-2)
                      /\ \A k \in 2..MaxVerts : x[1].data[k] = <<1, 2>>}}
        \cup
        {GeometryOf([d EXCEPT !.annot = l, !.ctab = Some(c)]) :
            l \in {x \in AnnotsOf(MaxVerts) : \A k \in 1..MaxVerts :
                                                 x[1].data[k] = 1},
            c \in {x \in ColorTables : x.data[1][1] = 255}}

\* `prepare_geometry(mesh, overlay, annot, bg_map, roi, current_fthresh_,
\* current_fmax_, invert=invert)`
ViewerPrepare(scene, pair) ==
    ValueOf({prepare_geometry(g, Num(0)) :
                g \in {[scene EXCEPT !.minval = pair[1],
                                     !.maxval = pair[2]]}})

\* `shader = setup_shader(meshdata, triangles, ...)`: the buffers the
\* shader program draws from.
ViewerShader(prepared) ==
    [vbo |-> prepared.vertexdata, ebo |-> prepared.triangles]

\* derived is what the tick's prepare_geometry call returned, if it made one.
NoFrame ==
    [kind |-> "none", rerun |-> FALSE, panel |-> <<None, None>>,
     before |-> <<None, None>>, derived |-> None]

\* show_window up to `loop.exec()`, entered with the globals as run() set
\* them (the panel's initial values) or as the module left them (None), with
\* or without a panel.
InitViewer ==
    /\ pc = "idle"
    /\ op = ""
    /\ input = <<>>
    /\ output = <<>>
    /\ numpy \in {1, 2}
    /\ \E scene \in ViewerScenes, panel \in PanelPairs \cup {None},
          globals \in PanelPairs \cup {<<None, None>>} :
       \E prepared \in {ViewerPrepare(scene, globals)} :
          /\ panel # None => globals \in {panel, <<None, None>>}
          /\ prepared.kind = "ok"
          /\ snap = NoSnap
          /\ viewer = [phase |-> "running", scene |-> scene,
                       config_window |-> IF panel = None THEN None
                                         ELSE Some(panel),
                       current |-> globals,
                       prepared_with |-> globals,
                       meshdata |-> prepared.vertexdata,
                       shader |-> ViewerShader(prepared),
                       should_close |-> FALSE, quitting |-> FALSE,
                       frame |-> NoFrame]

\* _begin_quit: stops the timer and GLFW, once.
_begin_quit(v) ==
    IF v.quitting THEN v
    ELSE [v EXCEPT !.quitting = TRUE, !.phase = "quit"]

\* ThresholdsChanged looking at fthresh only.
ThresholdsChanged_FthreshOnly(new, current) == new[1] # current[1]

\* `new_fthresh != current_fthresh_ or new_fmax != current_fmax_`
ThresholdsChanged(new, current) == new[1] # current[1] \/ new[2] # current[2]

\* _render_frame, one timer tick.  config_window is None or Some(pair).
_render_frame(v) ==
    IF v.quitting THEN v
    ELSE IF v.should_close
       THEN [_begin_quit(v) EXCEPT !.frame = [NoFrame EXCEPT !.kind = "quit"]]
    ELSE LET new == v.config_window
             frame == [NoFrame EXCEPT
                          !.kind = "drawn",
                          !.panel = IF new = None THEN <<None, None>>
                                    ELSE new[1],
                          !.before = v.prepared_with]
         IN  IF new = None \/ ~ThresholdsChanged(new[1], v.current)
                THEN [v EXCEPT !.frame = frame]
             ELSE ValueOf({
                      IF prepared.kind = "raise"
                         THEN [v EXCEPT !.current = new[1],
                                        !.prepared_with = new[1],
                                        !.phase = "raised",
                                        !.frame = [frame EXCEPT
                                                      !.kind = "raised",
                                                      !.rerun = TRUE,
                                                      !.derived =
                                                          Some(prepared)]]
                      ELSE [v EXCEPT !.current = new[1],
                                     !.prepared_with = new[1],
                                     !.meshdata = prepared.vertexdata,
                                     !.shader = ViewerShader(prepared),
                                     !.frame = [frame EXCEPT
                                                   !.rerun = TRUE,
                                                   !.derived = Some(prepared)]]
                      : prepared \in {ViewerPrepare(v.scene, new[1])}})

\* The timer fires while the loop runs.  An exception that leaves the slot
\* ends the program or is swallowed by the installed excepthook; the tick
\* after a swallowed one finds the loop running.
RenderFrame ==
    /\ viewer.phase \in {"running", "raised"}
    /\ \E v \in {[viewer EXCEPT !.phase = "running"]} :
          viewer' = _render_frame(v)
    /\ UNCHANGED <<pc, op, input, output, numpy, snap>>

\* The user moves a slider or edits a text box of the panel.
PanelChange ==
    /\ viewer.phase = "running"
    /\ viewer.config_window # None
    /\ \E pair \in PanelPairs :
          /\ (pair[1] = viewer.config_window[1][1]
                \/ pair[2] = viewer.config_window[1][2])
          /\ pair # viewer.config_window[1]
          /\ viewer' = [viewer EXCEPT !.config_window = Some(pair),
                                      !.frame = NoFrame]
    /\ UNCHANGED <<pc, op, input, output, numpy, snap>>

\* Q, or the window's close button: GLFW sets the close flag.
CloseRequest ==
    /\ viewer.phase = "running"
    /\ ~viewer.should_close
    /\ viewer' = [viewer EXCEPT !.should_close = TRUE]
    /\ UNCHANGED <<pc, op, input, output, numpy, snap>>

\* The panel is closed: `config_window.destroyed.connect(_begin_quit)`.
PanelDestroyed ==
    /\ viewer.phase = "running"
    /\ viewer.config_window # None
    /\ viewer' = _begin_quit(viewer)
    /\ UNCHANGED <<pc, op, input, output, numpy, snap>>

NextViewer == RenderFrame \/ PanelChange \/ CloseRequest \/ PanelDestroyed

SpecViewer == InitViewer /\ [][NextViewer]_vars

(***************************************************************************)
(* gl/utils.py and snap.py: the rendering functions and their context      *)
(*                                                                         *)
(* snap holds the position of the rendering function in progress (stage),  *)
(* its arguments and locals, and the state of the gl module: the module    *)
(* global _offscreen_context and whether GLFW holds a window.              *)
(* stage is "idle", then "created" (a context is held), "rendered" or      *)
(* "raised" (the try block is left), "terminated" (the finally block has   *)
(* run) and "left" (the function returned or let an exception through).    *)
(***************************************************************************)
\* The overlays snap4 is given, as arrays and as morph files: all 2, -2
\* followed by 1/2, all 1/2.
SnapArrays ==
    {[dtype |-> "float64", shape |-> <<MaxVerts>>, data |-> d] :
        d \in {[i \in 1..MaxVerts |-> Num(2)],
               [i \in 1..MaxVerts |-> IF i = 1 THEN Num(-2) ELSE <<1, 2>>],
               [i \in 1..MaxVerts |-> <<1, 2>>]}}

SnapOverlays ==
    ArrayArgs(SnapArrays)
    \cup {[NoneArg EXCEPT !.tag = "str", !.path = <<"lh", "thickness">>,
                          !.content = [NoFile EXCEPT !.fmt = "morph",
                                                     !.arr = a]] :
             a \in SnapArrays}

SnapFunctions == {"snap1", "snap4", "snap_rotate"}

\* overlays holds the overlay of each hemisphere in turn: one for snap1
\* and snap_rotate, lh_overlay and rh_overlay for snap4.
SnapArgs(fn) ==
    {[overlays |-> o, fthresh |-> lo, fmax |-> hi] :
        o \in IF fn = "snap4"
                 THEN (SnapOverlays \cup {NoneArg})
                      \X (SnapOverlays \cup {NoneArg})
                 ELSE {<<x>> : x \in {NoneArg} \cup ArrayArgs(SnapArrays)},
        lo \in {None, Some(<<1, 2>>)}, hi \in {None, Some(Num(2))}}

\* bool(x) of an overlay argument, as `filter(None, ...)` takes it: "raise"
\* where numpy refuses the truth value of an array.
Truthy(x, np) ==
    IF x.tag = "none" THEN "false"
    ELSE IF x.tag = "str" THEN (IF x.path = <<>> THEN "false" ELSE "true")
    ELSE IF Len(x.arr.data) > 1 THEN "raise"
    ELSE IF Len(x.arr.data) = 1
       THEN (IF x.arr.data[1] = Num(0) THEN "false" ELSE "true")
    ELSE IF np = 1 THEN "false" ELSE "raise"

MinOf(s) == CHOOSE x \in Range(s) : \A y \in Range(s) : Ge(y, x)

MaxOf(s) == CHOOSE x \in Range(s) : \A y \in Range(s) : Ge(x, y)

\* snap4's pre-pass: the thresholds left None are estimated over the
\* overlays.
snap4_prepass(a, np) ==
    LET has_overlay == \E k \in 1..Len(a.overlays) : a.overlays[k].tag # "none"
        truth == [k \in 1..Len(a.overlays) |-> Truthy(a.overlays[k], np)]
        given == SelectSeq([k \in 1..Len(a.overlays) |->
                               [o |-> a.overlays[k], t |-> truth[k]]],
                           LAMBDA e : e.t = "true")
        ests  == [k \in 1..Len(given) |->
                     estimate_overlay_thresholds(given[k].o, a.fthresh, a.fmax)]
    IN  IF ~(has_overlay /\ (a.fthresh = None \/ a.fmax = None))
           THEN [kind |-> "ok", fthresh |-> a.fthresh, fmax |-> a.fmax]
        ELSE IF \E k \in 1..Len(truth) : truth[k] = "raise"
           THEN Raise("ValueError", "truth value of an array is ambiguous")
        ELSE IF \E k \in 1..Len(ests) : ests[k].kind = "raise"
           THEN ests[CHOOSE k \in 1..Len(ests) : ests[k].kind = "raise"]
        ELSE [kind |-> "ok",
              fthresh |-> IF a.fthresh = None /\ ests # <<>>
                             THEN Some(MinOf([k \in 1..Len(ests) |->
                                                 ests[k].minval]))
                          ELSE a.fthresh,
              fmax |-> IF a.fmax = None /\ ests # <<>>
                          THEN Some(MaxOf([k \in 1..Len(ests) |->
                                              ests[k].maxval]))
                       ELSE a.fmax]

\* The gl module and the caller between two rendering calls.
IdleSnap(offscreen, glfw) ==
    [stage |-> "idle", fn |-> "",
     args |-> [overlays |-> <<>>, fthresh |-> None, fmax |-> None],
     window |-> FALSE, next |-> 1, fthresh |-> None, fmax |-> None,
     used |-> <<>>, exc |-> "", prepass_raised |-> FALSE, terminated |-> 0,
     offscreen |-> offscreen, glfw |-> glfw]

InitSnap ==
    /\ pc = "idle"
    /\ op = ""
    /\ input = <<>>
    /\ output = <<>>
    /\ numpy \in {1, 2}
    /\ viewer = NoViewer
    /\ snap = IdleSnap(None, FALSE)

\* create_window_with_fallback: a GLFW window, else an OSMesa context kept
\* in _offscreen_context (None is returned), else RuntimeError.
create_window_with_fallback(s, way) ==
    IF way = "glfw" THEN [s EXCEPT !.stage = "created", !.window = TRUE,
                                   !.glfw = TRUE]
    ELSE IF way = "osmesa"
       THEN [s EXCEPT !.stage = "created", !.window = FALSE,
                      !.offscreen = Some("OSMesaContext")]
    ELSE [s EXCEPT !.stage = "left", !.exc = "RuntimeError"]

\* terminate_context calling glfw.terminate() alone.
terminate_context_GlfwOnly(s) ==
    [s EXCEPT !.glfw = FALSE, !.terminated = @ + 1]

\* terminate_context: destroys the offscreen context and forgets it, or
\* terminates GLFW.
terminate_context(s) ==
    IF s.offscreen # None
       THEN [s EXCEPT !.offscreen = None, !.terminated = @ + 1]
    ELSE [s EXCEPT !.glfw = FALSE, !.terminated = @ + 1]

\* A rendering function is called and runs up to the try block: snap4 makes
\* its pre-pass, then each asks for a context.
SnapCall ==
    /\ snap.stage = "idle"
    /\ \E fn \in SnapFunctions :
       \E a \in SnapArgs(fn), way \in {"glfw", "osmesa", "none"} :
       \E pre \in {IF fn = "snap4" THEN snap4_prepass(a, numpy)
                   ELSE [kind |-> "ok", fthresh |-> a.fthresh,
                         fmax |-> a.fmax]} :
          snap' = IF pre.kind = "raise"
                     THEN [snap EXCEPT !.fn = fn, !.args = a,
                                       !.stage = "left", !.exc = pre.exc,
                                       !.prepass_raised = TRUE]
                  ELSE create_window_with_fallback(
                           [snap EXCEPT !.fn = fn, !.args = a,
                                        !.fthresh = pre.fthresh,
                                        !.fmax = pre.fmax], way)
    /\ UNCHANGED <<pc, op, input, output, numpy, viewer>>

\* `meshdata, triangles, fthresh, fmax, pos, neg =
\*  prepare_and_validate_geometry(mesh, overlay, ..., fthresh, fmax, ...)`
\* for the next hemisphere, then shader, rendering and capture, which may
\* fail.
SnapRender ==
    /\ snap.stage = "created"
    /\ \E gl_fails \in BOOLEAN,
          g \in {[GeometryOf(ArrayDefaults(MaxVerts)) EXCEPT
                     !.overlay = snap.args.overlays[snap.next],
                     !.minval = snap.fthresh, !.maxval = snap.fmax]} :
       \E p \in {prepare_and_validate_geometry(g, Num(0))} :
          snap' =
             IF p.kind = "raise"
                THEN [snap EXCEPT !.stage = "raised", !.exc = p.exc]
             ELSE LET s == [snap EXCEPT
                               !.fthresh = p.fmin, !.fmax = p.fmax,
                               !.used = Append(@,
                                   [overlay |-> g.overlay,
                                    passed |-> <<snap.fthresh, snap.fmax>>,
                                    colored |-> <<p.fmin, p.fmax>>]),
                               !.next = @ + 1]
                  IN  IF gl_fails
                         THEN [s EXCEPT !.stage = "raised", !.exc = "GLError"]
                      ELSE IF s.next > Len(s.args.overlays)
                         THEN [s EXCEPT !.stage = "rendered"]
                      ELSE s
    /\ UNCHANGED <<pc, op, input, output, numpy, viewer>>

\* `finally: terminate_context(window)`
SnapFinally ==
    /\ snap.stage \in {"rendered", "raised"}
    /\ snap' = [terminate_context(snap) EXCEPT !.stage = "terminated"]
    /\ UNCHANGED <<pc, op, input, output, numpy, viewer>>

\* The function returns or lets the exception of its try block through;
\* snap_rotate encodes its frames first, which may fail.
SnapLeave ==
    /\ snap.stage = "terminated"
    /\ \E encode_fails \in BOOLEAN :
          /\ encode_fails => snap.fn = "snap_rotate" /\ snap.exc = ""
          /\ snap' = [snap EXCEPT !.stage = "left",
                                  !.exc = IF encode_fails THEN "OSError"
                                          ELSE @]
    /\ UNCHANGED <<pc, op, input, output, numpy, viewer>>

\* The caller goes on; the gl module keeps its state.
SnapDone ==
    /\ snap.stage = "left"
    /\ snap' = IdleSnap(snap.offscreen, snap.glfw)
    /\ UNCHANGED <<pc, op, input, output, numpy, viewer>>

NextSnap == SnapCall \/ SnapRender \/ SnapFinally \/ SnapLeave \/ SnapDone

SpecSnap == InitSnap /\ [][NextSnap]_vars

(***************************************************************************)
(* Claims about the mesh readers and resolve_mesh (SpecMesh).              *)
(***************************************************************************)
AsciiReaderOps == {"read_off", "read_vtk_ascii_polydata", "read_ply_ascii"}

MeshOps == AsciiReaderOps \cup {"read_mesh", "resolve_mesh"}

\* Every entry of the returned faces array indexes a returned vertex.
FacesInRange(result) ==
    \A j \in 1..Len(result.faces.data) :
        \A k \in 1..Len(result.faces.data[j]) :
            /\ result.faces.data[j][k] >= 0
            /\ result.faces.data[j][k] < result.vertices.shape[1]

\* C1: after read_off, read_vtk_ascii_polydata, read_ply_ascii, read_mesh or
\* resolve_mesh returns, for any kind of input, every entry of the returned
\* faces array is >= 0 and < the number of returned vertices.
C1_FacesInRangeAfterAnyLoad ==
    (pc = "done" /\ op \in MeshOps /\ output.kind = "ok")
        => FacesInRange(output)

\* The reader was given the file in its plain layout: the header of the
\* format, the declared counts, then the vertex lines and the face lines.
PlainFile ==
    \/ op = "read_off" /\ input.file = OffFile(<< <<"OFF">> >>, input)
    \/ op = "read_vtk_ascii_polydata"
           /\ input.file = VtkFile(VtkHeader, input)
    \/ op = "read_ply_ascii" /\ input.file = PlyFile(input)

RECURSIVE SumLen(_)
SumLen(ls) == IF ls = <<>> THEN 0 ELSE Len(ls[1]) + SumLen(Tail(ls))

\* The file declares natural counts and holds exactly the declared vertex
\* values and face lines, each face line a count followed by that many
\* indices.
WellFormedData ==
    /\ PlainFile
    /\ IsInt(input.nv) /\ IntTab[input.nv] >= 0
    /\ IsInt(input.nf) /\ IntTab[input.nf] >= 0
    /\ Len(input.fl) = IntTab[input.nf]
    /\ IF op = "read_vtk_ascii_polydata"
          THEN SumLen(input.vl) = 3 * IntTab[input.nv]
          ELSE /\ Len(input.vl) = IntTab[input.nv]
               /\ \A i \in 1..Len(input.vl) : Len(input.vl[i]) = 3
    /\ \A j \in 1..Len(input.fl) :
          Len(input.fl[j]) = IntTab[input.fl[j][1]] + 1

HasNonTriangle == \E j \in 1..Len(input.fl) : input.fl[j][1] # "3"

HasIndexBeyondVertices ==
    \E j \in 1..Len(input.fl) : \E k \in 2..Len(input.fl[j]) :
        IntTab[input.fl[j][k]] >= IntTab[input.nv]

\* C2: in every ASCII reader a well-formed file with a face whose vertex
\* count is not 3 raises ValueError "only triangles", and one whose faces
\* are all triangles but that holds an index >= n_vertices raises
\* ValueError "out of range".
C2_QuadAndOutOfRangeRaise ==
    (pc = "done" /\ op \in AsciiReaderOps /\ WellFormedData) =>
        /\ HasNonTriangle => output = Raise("ValueError", "triangles")
        /\ (~HasNonTriangle /\ HasIndexBeyondVertices)
              => output = Raise("ValueError", "out of range")

\* C3: a reader call either raises or returns vertices of shape
\* (n_vertices, 3) and faces of shape (n_faces, 3) for the counts declared
\* in the file, and it raises when the file holds fewer data lines than
\* declared.
C3_ReturnsDeclaredShapesOrRaises ==
    (pc = "done" /\ op \in AsciiReaderOps /\ PlainFile
        /\ IsInt(input.nv) /\ IsInt(input.nf)) =>
        /\ output.kind = "ok" =>
              /\ output.vertices.shape = <<IntTab[input.nv], 3>>
              /\ output.faces.shape = <<IntTab[input.nf], 3>>
        /\ (op # "read_vtk_ascii_polydata"
             /\ Len(input.vl) + Len(input.fl)
                    < IntTab[input.nv] + IntTab[input.nf])
              => output.kind = "raise"

(***************************************************************************)
(* Claims about the resolvers (SpecResolve).                               *)
(***************************************************************************)
ScalarResolverOps == {"resolve_overlay", "resolve_bg_map", "resolve_roi"}

ResolverOps == ScalarResolverOps \cup {"resolve_annot"}

\* The call passed an array (for resolve_annot: a 2- or 3-tuple, whose
\* first item is the labels array).
ArraySupplied ==
    \/ op \in ScalarResolverOps /\ input.arg.tag = "array"
    \/ op = "resolve_annot" /\ input.arg.tag = "tuple"
          /\ Len(input.arg.items) \in {2, 3}

SuppliedArray ==
    IF op = "resolve_annot" THEN input.arg.items[1] ELSE input.arg.arr

\* The per-vertex array of a result that is not None.
ResolvedArray ==
    IF op = "resolve_annot" THEN output.value[1].labels ELSE output.value[1]

\* C4: when a resolver is called with an integer n_vertices and returns a
\* result that is not None, the returned per-vertex array has shape
\* (n_vertices,); an array of any other length or dimensionality raises
\* ValueError.
C4_ResolvedShapeIsVertexCount ==
    (pc = "done" /\ op \in ResolverOps /\ input.n_vertices # None) =>
        /\ (output.kind = "ok" /\ output.value # None)
              => ResolvedArray.shape = <<input.n_vertices[1]>>
        /\ (ArraySupplied /\ SuppliedArray.shape # <<input.n_vertices[1]>>)
              => (output.kind = "raise" /\ output.exc = "ValueError")

\* resolve_roi built the mask of a two-vertex mesh from a label file.
C4_Witness ==
    /\ pc = "done" /\ op = "resolve_roi" /\ input.arg.tag = "str"
    /\ input.arg.content.fmt = "label"
    /\ input.n_vertices = Some(2)
    /\ output.kind = "ok" /\ output.value # None
    /\ ResolvedArray.shape = <<2>>

\* C10 as stated: every resolver accepts n_vertices = None and then returns
\* the resolved array whatever its length.
C10_NoneSkipsCheckInEveryResolver ==
    (pc = "done" /\ op \in ResolverOps /\ input.n_vertices = None
        /\ ArraySupplied)
        => (output.kind = "ok" /\ ResolvedArray.shape = SuppliedArray.shape)

\* C10, amended: with n_vertices = None, resolve_overlay and resolve_bg_map
\* return the array they are given whatever its shape and never raise the
\* shape error; resolve_roi and resolve_annot raise for every input other
\* than None.
C10_NoneSkipsCheckInOverlayAndBgMapOnly ==
    (pc = "done" /\ op \in ResolverOps /\ input.n_vertices = None
        /\ input.arg.tag # "none") =>
        /\ (op \in {"resolve_overlay", "resolve_bg_map"} /\ ArraySupplied)
              => /\ output.kind = "ok"
                 /\ ResolvedArray = AsType(SuppliedArray, "float32")
        /\ (op \in {"resolve_overlay", "resolve_bg_map"}
              /\ output.kind = "raise")
              => output.msg \notin {"overlay has shape", "bg_map has shape"}
        /\ op \in {"resolve_roi", "resolve_annot"} => output.kind = "raise"

\* resolve_overlay was given an array longer than any mesh with n_vertices =
\* None, and returned it.
C10_Witness ==
    /\ pc = "done" /\ op = "resolve_overlay" /\ input.n_vertices = None
    /\ input.arg.tag = "array"
    /\ input.arg.arr.shape = <<MaxVerts + 1>>
    /\ output.kind = "ok" /\ ResolvedArray.shape = <<MaxVerts + 1>>

(***************************************************************************)
(* Claims about the colormap primitives and the preparers.                 *)
(***************************************************************************)
PrimitiveOps ==
    {"mask_sign", "rescale_overlay", "heat_color", "binary_color",
     "mask_label"}

ArrayPreparer == "prepare_geometry_from_arrays"

PreparerOps ==
    {ArrayPreparer, "prepare_geometry", "prepare_and_validate_geometry"}

\* The call `name(args)`.
Prepared(name, args, uninit) ==
    IF name = ArrayPreparer THEN prepare_geometry_from_arrays(args, uninit)
    ELSE IF name = "prepare_geometry" THEN prepare_geometry(args, uninit)
    ELSE prepare_and_validate_geometry(args, uninit)

\* The arguments of a call without its ROI; with nothing but its mesh and
\* background map; without its background map.
WithoutRoi(name, args) ==
    IF name = ArrayPreparer THEN [args EXCEPT !.roi = None]
    ELSE [args EXCEPT !.roi = NoneArg]

BackgroundOnly(name, args) ==
    IF name = ArrayPreparer
       THEN [args EXCEPT !.roi = None, !.overlay = None, !.annot = None,
                         !.ctab = None]
       ELSE [args EXCEPT !.roi = NoneArg, !.overlay = NoneArg,
                         !.annot = [tag |-> "none", content |-> NoFile,
                                    items |-> <<>>]]

WithoutBgMap(name, args) ==
    IF name = ArrayPreparer THEN [args EXCEPT !.bg_map = None]
    ELSE [args EXCEPT !.bg_map = NoneArg]

\* The colors a finished call returned, one RGB row per vertex.
ColorsOf(result) == result.vertexdata.colors

\* The ROI mask of the finished call, one boolean per entry: the array the
\* caller passed, or the mask the label file stands for.
RoiSupplied ==
    IF op = ArrayPreparer THEN input.args.roi # None
    ELSE input.args.roi.tag # "none"

SuppliedMask ==
    IF op = ArrayPreparer THEN input.args.roi[1].data
    ELSE resolve_roi(input.args.roi,
                     Some(output.vertexdata.shape[1])).value[1].data

\* C5: when a ROI mask is supplied to the pipeline and the call returns,
\* every vertex whose mask entry is False has exactly the color the same call
\* gives it with neither overlay nor annotation nor ROI (the background
\* shading), and every vertex whose mask entry is True has the color the same
\* call gives it without the ROI (the overlay or annotation coloring): the
\* override is the last coloring step.
C5_RoiOverridesAfterColoring ==
    (pc = "done" /\ op \in PreparerOps /\ output.kind = "ok" /\ RoiSupplied)
        => LET mask == SuppliedMask
               background ==
                   ColorsOf(Prepared(op, BackgroundOnly(op, input.args),
                                     input.uninit))
               colored ==
                   ColorsOf(Prepared(op, WithoutRoi(op, input.args),
                                     input.uninit))
           IN  \A k \in 1..Len(ColorsOf(output)) :
                   k <= Len(mask) =>
                       ColorsOf(output)[k] = IF mask[k] THEN colored[k]
                                             ELSE background[k]

\* A call returned with a ROI that is False at a vertex the overlay colored
\* and True at another one.
C5_Witness ==
    /\ pc = "done" /\ op \in PreparerOps /\ output.kind = "ok" /\ RoiSupplied
    /\ LET colored ==
               ColorsOf(Prepared(op, WithoutRoi(op, input.args),
                                 input.uninit))
           background ==
               ColorsOf(Prepared(op, BackgroundOnly(op, input.args),
                                 input.uninit))
       IN  /\ \E k \in 1..Len(SuppliedMask) :
                 /\ ~SuppliedMask[k]
                 /\ colored[k] # background[k]
                 /\ ColorsOf(output)[k] = background[k]
           /\ \E k \in 1..Len(SuppliedMask) :
                 /\ SuppliedMask[k]
                 /\ ColorsOf(output)[k] # background[k]

Validator == "prepare_and_validate_geometry"

\* The call of prepare_geometry that the validator wraps.
Wrapped == prepare_geometry(input.args, input.uninit)

\* When that call returns: the overlay it colored, the threshold it held
\* the overlay against, whether a positive and whether a negative value is
\* not below that threshold.
ValidatedOverlay ==
    resolve_overlay(input.args.overlay,
                    Some(Wrapped.vertexdata.shape[1])).value[1]

Fthresh == Wrapped.fmin[1]

Survives(v) == ~IsNaN(v) /\ ~Lt(Abs(v), Fthresh)

PositiveSurvived ==
    \E k \in 1..Len(ValidatedOverlay.data) :
        LET v == ValidatedOverlay.data[k] IN Survives(v) /\ Gt(v, Num(0))

NegativeSurvived ==
    \E k \in 1..Len(ValidatedOverlay.data) :
        LET v == ValidatedOverlay.data[k] IN Survives(v) /\ Lt(v, Num(0))

\* Once the overlay is thresholded, the validator raises ValueError when
\* the sign asked for did not survive and the other one did, and when
\* neither did.
RaisesWithoutVisibleSign ==
    (/\ Wrapped.kind = "ok"
     /\ \/ input.args.color_mode = "POSITIVE" /\ ~PositiveSurvived
                                              /\ NegativeSurvived
        \/ input.args.color_mode = "NEGATIVE" /\ PositiveSurvived
                                              /\ ~NegativeSurvived
        \/ ~PositiveSurvived /\ ~NegativeSurvived)
        => (output.kind = "raise" /\ output.exc = "ValueError")

\* Some vertex of the returned buffer has another color than its background.
NotAllBackground ==
    LET background ==
            ColorsOf(Prepared(op, BackgroundOnly(op, input.args),
                              input.uninit))
    IN  \E k \in 1..Len(ColorsOf(output)) :
            ColorsOf(output)[k] # background[k]

\* The ROI of the call is False at every vertex the overlay colored.
RoiHidesOverlay ==
    /\ RoiSupplied
    /\ LET background ==
               ColorsOf(Prepared(op, BackgroundOnly(op, input.args),
                                 input.uninit))
           colored ==
               ColorsOf(Prepared(op, WithoutRoi(op, input.args),
                                 input.uninit))
       IN  \A k \in 1..Len(colored) :
               colored[k] # background[k] => ~SuppliedMask[k]

\* C6 (as stated): if prepare_and_validate_geometry is given an overlay and
\* returns, a sign of value is visible (pos or neg is true) and the buffer
\* is not all background; it raises ValueError when POSITIVE was asked for
\* and only negative values survived thresholding, when NEGATIVE was asked
\* for and only positive values survived, and when no value of either sign
\* survived.
C6_ValidatedBufferNotAllBackground ==
    (pc = "done" /\ op = Validator /\ input.args.overlay.tag # "none")
        => /\ output.kind = "ok" =>
                  /\ output.pos[1] \/ output.neg[1]
                  /\ NotAllBackground
           /\ RaisesWithoutVisibleSign

\* C6 (amended): as above, but the buffer may be all background when a ROI
\* mask is False at every vertex the overlay colored.
C6_ValidatedSignVisibleUnlessRoiHidesIt ==
    (pc = "done" /\ op = Validator /\ input.args.overlay.tag # "none")
        => /\ output.kind = "ok" =>
                  /\ output.pos[1] \/ output.neg[1]
                  /\ NotAllBackground \/ RoiHidesOverlay
           /\ RaisesWithoutVisibleSign

\* A validated call for the negative values of an overlay with values of
\* both signs returned a buffer with an overlay color in it.
C6_Witness ==
    /\ pc = "done" /\ op = Validator /\ input.args.overlay.tag # "none"
    /\ input.args.color_mode = "NEGATIVE"
    /\ output.kind = "ok" /\ output.neg[1] /\ ~output.pos[1]
    /\ PositiveSurvived /\ NegativeSurvived
    /\ NotAllBackground

\* Entry by entry: is it NaN.
NaNPattern(arr) == [k \in 1..Len(arr.data) |-> IsNaN(arr.data[k])]

Doubled(x) == Mul(Num(2), x)

DoubledArray(arr) ==
    [arr EXCEPT !.data = [k \in 1..Len(arr.data) |-> Doubled(arr.data[k])]]

\* rescale_overlay(2 * values, 2 * minval, 2 * maxval) excludes the entries
\* the finished call excluded.
SameExclusionsDoubled ==
    NaNPattern(rescale_overlay(DoubledArray(input.values),
                               Doubled(input.minval),
                               Doubled(input.maxval)).values)
        = NaNPattern(output.values)

NonNegativeThresholds ==
    Ge(input.minval, Num(0)) /\ Ge(input.maxval, Num(0))

\* C7 (as stated): for non-negative thresholds the result of
\* rescale_overlay is NaN exactly at the entries with abs(value) < minval,
\* and doubling values, minval and maxval excludes the same entries.
C7_ExcludesExactlyBelowMinval ==
    (pc = "done" /\ op = "rescale_overlay" /\ NonNegativeThresholds)
        => /\ output.kind = "ok"
           /\ \A k \in 1..Len(input.values.data) :
                  IsNaN(output.values.data[k])
                      <=> Lt(Abs(input.values.data[k]), input.minval)
           /\ SameExclusionsDoubled

\* C7 (amended): for non-negative thresholds that differ, the result is NaN
\* exactly at the entries that are NaN already or have abs(value) < minval;
\* for equal thresholds every entry of the result is zero; in both cases
\* doubling values, minval and maxval excludes the same entries.
C7_ExcludesBelowMinvalUnlessRangeIsZero ==
    (pc = "done" /\ op = "rescale_overlay" /\ NonNegativeThresholds)
        => /\ output.kind = "ok"
           /\ \A k \in 1..Len(input.values.data) :
                  IF input.minval = input.maxval
                     THEN output.values.data[k] = Num(0)
                     ELSE IsNaN(output.values.data[k])
                              <=> \/ IsNaN(input.values.data[k])
                                  \/ Lt(Abs(input.values.data[k]),
                                        input.minval)
           /\ SameExclusionsDoubled

\* rescale_overlay excluded an entry below minval and kept one at minval.
C7_Witness ==
    /\ pc = "done" /\ op = "rescale_overlay" /\ output.kind = "ok"
    /\ input.minval # input.maxval
    /\ \E k \in 1..Len(input.values.data) :
          /\ Lt(Abs(input.values.data[k]), input.minval)
          /\ IsNaN(output.values.data[k])
    /\ \E k \in 1..Len(input.values.data) :
          /\ Abs(input.values.data[k]) = input.minval
          /\ ~IsNaN(output.values.data[k])

\* The background map of the call is an array of another length than the
\* mesh, itself given as arrays, has vertices.
BgMapLengthDiffers ==
    IF op = ArrayPreparer
       THEN /\ input.args.bg_map # None
            /\ input.args.bg_map[1].shape[1] # input.args.vertices.shape[1]
       ELSE /\ input.args.bg_map.tag = "array"
            /\ input.args.mesh.tag = "tuple"
            /\ input.args.bg_map.arr.shape[1]
                   # input.args.mesh.items[1].shape[1]

\* C8: in prepare_geometry and prepare_geometry_from_arrays a background
\* map of another length than the mesh is not fatal: a call that returns
\* without its background map returns with it too, with a warning, and with
\* the colors it has without a background map (flat gray 0.5 behind the
\* overlay or annotation coloring).
C8_BgMapMismatchIsNotFatal ==
    (/\ pc = "done" /\ op \in {ArrayPreparer, "prepare_geometry"}
     /\ BgMapLengthDiffers
     /\ Prepared(op, WithoutBgMap(op, input.args), input.uninit).kind = "ok")
        => /\ output.kind = "ok"
           /\ output.warned
           /\ ColorsOf(output)
                  = ColorsOf(Prepared(op, WithoutBgMap(op, input.args),
                                      input.uninit))
           /\ ColorsOf(Prepared(op, BackgroundOnly(op, input.args),
                                input.uninit))
                  = FlatGray(output.vertexdata.shape[1])

\* C9: a colormap primitive leaves the array it was passed as it was,
\* whether it returns or raises.  (The resolvers and the preparers write to
\* no array of the caller: the state holds no array for them to change.)
C9_PrimitivesLeaveArgumentsAlone ==
    (pc = "done" /\ op \in PrimitiveOps) => output.after = input.values

(***************************************************************************)
(* Claims about the routing and the readers of scalar files.               *)
(***************************************************************************)
\* Two outcomes agree: both None, both the same float32 array, or both an
\* error of the same type.
SameOutcome(a, b) ==
    /\ a.kind = b.kind
    /\ a.kind = "ok" => a.value = b.value
    /\ a.kind = "raise" => a.exc = b.exc

\* C11: resolve_overlay and resolve_bg_map have one contract: for every
\* argument and every n_vertices, the finished call of either ended as the
\* call of the other with the same argument and n_vertices ends: both return
\* None, both return equal float32 arrays, or both raise an error of the
\* same type.
C11_OverlayAndBgMapAgree ==
    /\ (pc = "done" /\ op = "resolve_overlay")
          => /\ SameOutcome(output, resolve_bg_map(input.arg, input.n_vertices))
             /\ (output.kind = "ok" /\ output.value # None)
                   => output.value[1].dtype = "float32"
    /\ (pc = "done" /\ op = "resolve_bg_map")
          => /\ SameOutcome(output, resolve_overlay(input.arg, input.n_vertices))
             /\ (output.kind = "ok" /\ output.value # None)
                   => output.value[1].dtype = "float32"

\* resolve_bg_map raised for an array of another length than the mesh, as
\* resolve_overlay does.
C11_Witness ==
    /\ pc = "done" /\ op = "resolve_bg_map" /\ input.arg.tag = "array"
    /\ input.n_vertices # None
    /\ input.arg.arr.shape # <<input.n_vertices[1]>>
    /\ output.kind = "raise" /\ output.exc = "ValueError"
    /\ resolve_overlay(input.arg, input.n_vertices).kind = "raise"

\* The reader a path is routed to, by the format it reads: the name,
\* lower-cased, ending in .func.gii or .label.gii first, then its extension
\* (the text after the last dot of a name that has text before that dot).
HasExtension(path) == \E k \in 1..(Len(path) - 1) : path[k] # ""

RoutedFormat(path) ==
    LET name == LowerPath(path)
        ext  == IF HasExtension(name) THEN name[Len(name)] ELSE ""
    IN  IF Len(name) >= 3 /\ name[Len(name)] = "gii"
           /\ name[Len(name) - 1] \in {"func", "label"} THEN "gii"
        ELSE IF ext \in {"mgh", "mgz"} THEN "mgh"
        ELSE IF ext \in {"txt", "csv"} THEN "txt"
        ELSE IF ext \in {"npy", "npz", "gii"} THEN ext
        ELSE "morph"

\* C12: resolve_overlay and resolve_bg_map hand every file path to exactly
\* one reader, the one its lower-cased name selects: the call returns the
\* array of the file when the file is of the format that reader reads, and
\* raises that reader's error when it is not.
C12_PathRoutedToOneReader ==
    (pc = "done" /\ op \in {"resolve_overlay", "resolve_bg_map"}
        /\ input.arg.tag = "str" /\ input.n_vertices = None)
        => IF input.arg.content.fmt = RoutedFormat(input.arg.path)
              THEN /\ output.kind = "ok"
                   /\ output.value = Some(AsType(input.arg.content.arr,
                                                 "float32"))
              ELSE /\ output.kind = "raise"
                   /\ output.msg # "Unsupported overlay file extension"

\* A GIfTI file named o.FUNC.GII was read by the GIfTI reader.
C12_Witness ==
    /\ pc = "done" /\ op = "resolve_overlay" /\ input.arg.tag = "str"
    /\ input.arg.path = <<"o", "FUNC", "GII">>
    /\ input.arg.content.fmt = "gii"
    /\ input.n_vertices = None
    /\ output.kind = "ok"

(***************************************************************************)
(* Claims about the mesh readers, continued (SpecMesh).                    *)
(***************************************************************************)
\* C13: read_mesh and resolve_mesh, called with a path whose lower-cased
\* name ends in .gii (.surf.gii included), hand the file to the GIfTI
\* surface reader: the call never ends in the unsupported-extension error
\* of the dispatcher.
C13_GiiPathsAreDispatched ==
    (pc = "done" /\ op \in {"read_mesh", "resolve_mesh"}
        /\ input.tag = "str"
        /\ HasExtension(input.path)
        /\ Lower(input.path[Len(input.path)]) = "gii")
        => ~(output.kind = "raise"
             /\ output.msg = "Unsupported mesh file extension")

(***************************************************************************)
(* Claims about the scalar file readers (SpecOverlayIO).                   *)
(***************************************************************************)
\* The line is neither blank nor a comment and does not begin with a token
\* that float() accepts.
Unparsable(line) ==
    /\ ~IsBlank(line) /\ ~IsComment(line)
    /\ line[1] = <<>> \/ ~IsFloat(line[1][1])

LaterUnparsable(lines) == {k \in 2..Len(lines) : Unparsable(lines[k])}

\* The values of the lines that begin with a number.
ParsedValues(lines) ==
    LET keep == SelectSeq([k \in 1..Len(lines) |-> lines[k]],
                          LAMBDA line : ~IsBlank(line) /\ ~IsComment(line)
                                        /\ line[1] # <<>>
                                        /\ IsFloat(line[1][1]))
    IN  [k \in 1..Len(keep) |-> FloatTab[keep[k][1][1]]]

\* C14: read_txt skips a first line whose first token is not a number, and
\* raises ValueError with the number and the content of the first later
\* line that is neither blank nor a comment and whose first token is not a
\* number; an array it returns misses no such line.
C14_OnlyFirstLineMayBeHeader ==
    (pc = "done" /\ op = "read_txt") =>
        /\ ~(output.kind = "raise" /\ output.lineno = 1)
        /\ LaterUnparsable(input) # {}
              => output = RaiseAt("ValueError",
                                  "Could not parse numeric value",
                                  Min(LaterUnparsable(input)),
                                  input[Min(LaterUnparsable(input))])
        /\ output.kind = "ok"
              => /\ LaterUnparsable(input) = {}
                 /\ output.value.data = ParsedValues(input)

\* The third line names the ASCII format; the first DATASET line of the
\* file names POLYDATA.
VtkAscii(file) == Len(file) >= 3 /\ HasWord(file[3], "ASCII")

VtkDatasetLineNos(file) ==
    {k \in 1..Len(file) : file[k] # <<>> /\ Upper(file[k][1]) = "DATASET"}

VtkPolydata(file) ==
    /\ VtkDatasetLineNos(file) # {}
    /\ HasWord(file[Min(VtkDatasetLineNos(file))], "POLYDATA")

\* The file has a line that opens the section.
HasSection(file, keyword) ==
    \E k \in 1..Len(file) : file[k] # <<>> /\ Upper(file[k][1]) = keyword

VtkHeaderErrors == {"too short", "BINARY", "format line"}

VtkDatasetErrors == {"No DATASET", "POLYDATA"}

\* C15: read_vtk_ascii_polydata raises ValueError, before it reads any
\* section, for a file whose third line does not contain ASCII (with the
\* message about BINARY when the line contains BINARY) and for a file whose
\* DATASET line is missing or names another kind than POLYDATA; and it
\* raises ValueError for a file without a POINTS or without a POLYGONS
\* section.
C15_VtkHeaderAndSectionsValidated ==
    (pc = "done" /\ op = "read_vtk_ascii_polydata") =>
        /\ ~VtkAscii(input.file)
              => /\ output.kind = "raise" /\ output.exc = "ValueError"
                 /\ output.msg \in VtkHeaderErrors
                 /\ (output.msg = "BINARY")
                       <=> (Len(input.file) >= 3
                            /\ HasWord(input.file[3], "BINARY"))
        /\ (VtkAscii(input.file) /\ ~VtkPolydata(input.file))
              => /\ output.kind = "raise" /\ output.exc = "ValueError"
                 /\ output.msg \in VtkDatasetErrors \cup {"BINARY"}
        /\ (~HasSection(input.file, "POINTS")
              \/ ~HasSection(input.file, "POLYGONS"))
              => output.kind = "raise" /\ output.exc = "ValueError"

\* The body with the same tokens in each section, one vertex and one
\* triangle per line.
Unwrapped(b) ==
    [nv |-> b.nv, nf |-> b.nf, vl |-> Chunk(Flatten(b.vl), 3),
     fl |-> Chunk(Flatten(b.fl), 4)]

UnwrappedResult ==
    read_vtk_ascii_polydata(VtkFile(VtkHeader, Unwrapped(input)))

\* C16: a VTK file yields the vertices and faces of the file that holds the
\* same tokens in its POINTS and POLYGONS sections with one vertex and one
\* triangle per line, however the values are wrapped into lines.
C16_VtkWrappingIsImmaterial ==
    (pc = "done" /\ op = "read_vtk_ascii_polydata" /\ PlainFile
        /\ UnwrappedResult.kind = "ok")
        => output = UnwrappedResult

\* The lines of the header: those up to the end_header line.
PlyHeaderOf(file) ==
    LET ends == {k \in 1..Len(file) : Len(file[k]) = 1
                                       /\ Lower(file[k][1]) = "end_header"}
    IN  IF ends = {} THEN file ELSE SubSeq(file, 1, Min(ends))

PlyFormatsDeclared(file) ==
    {LowerPath(line) : line \in {l \in Range(PlyHeaderOf(file)) :
                                    StartsWith1(l, "format")}}

DeclaresAscii(file) == <<"format", "ascii", "1.0">> \in PlyFormatsDeclared(file)

DeclaresBinary(file) ==
    \E line \in PlyFormatsDeclared(file) : "ascii" \notin Range(line)

\* C17: read_ply_ascii raises ValueError for a file whose first line is not
\* ply and for a file whose header holds no line format ascii 1.0, wherever
\* the format line stands in the header; it returns no mesh for a file
\* whose header declares a binary format.
C17_PlyMagicAndFormatValidated ==
    (pc = "done" /\ op = "read_ply_ascii") =>
        /\ (input.file = <<>> \/ input.file[1] # <<"ply">>)
              => output.kind = "raise" /\ output.exc = "ValueError"
        /\ ~DeclaresAscii(input.file)
              => output.kind = "raise" /\ output.exc = "ValueError"
        /\ DeclaresBinary(input.file) => output.kind = "raise"

\* The array a finished read_npy or read_npz call selected from its file.
ArchiveKeys == [k \in 1..Len(input) |-> input[k][1]]

SelectedArray ==
    IF op = "read_npy" THEN input
    ELSE IF "data" \in Range(ArchiveKeys)
         THEN input[CHOOSE k \in 1..Len(input) : input[k][1] = "data"][2]
    ELSE input[1][2]

\* The number of axes the array keeps when squeezed.
SqueezedDims(arr) == Cardinality({k \in 1..Len(arr.shape) : arr.shape[k] # 1})

IsEmptyArray(arr) == Len(arr.data) = 0

\* The selected array as a vector.
AsVector(arr) ==
    [dtype |-> arr.dtype, shape |-> <<Len(arr.data)>>, data |-> arr.data]

\* C18 as stated: read_npz selects the array under "data", else the first
\* array saved, and raises ValueError for an archive without arrays;
\* read_npy and read_npz raise ValueError when the squeezed array has more
\* than one dimension or is empty, and otherwise return it as a 1-D array.
C18_SqueezedVectorOrRaise ==
    (pc = "done" /\ op \in {"read_npy", "read_npz"}) =>
        IF op = "read_npz" /\ input = <<>>
           THEN output = Raise("ValueError", "contains no arrays")
        ELSE IF SqueezedDims(SelectedArray) > 1 \/ IsEmptyArray(SelectedArray)
           THEN output.kind = "raise" /\ output.exc = "ValueError"
        ELSE output = [kind |-> "ok", value |-> AsVector(SelectedArray)]

\* C18, amended: the readers raise ValueError when the squeezed array is
\* not one-dimensional (more than one dimension, or none) or is empty, and
\* otherwise return it as a 1-D array.
C18_SqueezedVectorOrRaiseUnlessOneAxis ==
    (pc = "done" /\ op \in {"read_npy", "read_npz"}) =>
        IF op = "read_npz" /\ input = <<>>
           THEN output = Raise("ValueError", "contains no arrays")
        ELSE IF SqueezedDims(SelectedArray) # 1 \/ IsEmptyArray(SelectedArray)
           THEN output.kind = "raise" /\ output.exc = "ValueError"
        ELSE output = [kind |-> "ok", value |-> AsVector(SelectedArray)]

\* read_npz returned the column stored under "data", the second entry of
\* the archive, as a vector.
C18_Witness ==
    /\ pc = "done" /\ op = "read_npz"
    /\ Len(input) = 2 /\ input[2][1] = "data"
    /\ input[2][2].shape = <<2, 1>>
    /\ input[1][2] # input[2][2]
    /\ output.kind = "ok"
    /\ output.value = AsVector(input[2][2])

(***************************************************************************)
(* Claims about resolve_roi (SpecResolve).                                 *)
(***************************************************************************)
\* The path has a text, numpy or GIfTI extension.
HasOverlayExtension(path) == RoutedFormat(path) \in {"txt", "npy", "npz", "gii"}

\* The file is a label list whose entries are vertex ids of a mesh of n
\* vertices.
ListsVerticesOf(content, n) ==
    /\ content.fmt = "label"
    /\ \A k \in 1..Len(content.ids) : content.ids[k] \in 0..(n - 1)

\* The mask that is True exactly at the listed vertex ids.
ListedMask(ids, n) ==
    [dtype |-> "bool", shape |-> <<n>>,
     data |-> [v \in 1..n |-> \E k \in 1..Len(ids) : ids[k] = v - 1]]

\* The mask that is True exactly where the array is not zero.
NonZeroMask(arr) ==
    [dtype |-> "bool", shape |-> arr.shape,
     data |-> [k \in 1..Len(arr.data) |->
                  IF arr.dtype = "bool" THEN arr.data[k]
                  ELSE arr.data[k] # <<0, 1>>]]

\* The array a path or array argument holds: the file's, when the file is
\* of the format the path is routed to.
RoiLoaded(arg) == IF arg.tag = "array" THEN arg.arr ELSE arg.content.arr

RoiDecodes(arg) ==
    \/ arg.tag = "array"
    \/ arg.tag = "str" /\ HasOverlayExtension(arg.path)
          /\ arg.content.fmt = RoutedFormat(arg.path)

\* C19: resolve_roi reads a path without a text, numpy or GIfTI extension
\* as a label list and returns the mask of length n_vertices that is True
\* exactly at the listed vertex ids; for a text, numpy or GIfTI file and
\* for an array it returns the mask that is True exactly where the loaded
\* value is not zero.
C19_RoiMaskFromLabelOrNonZero ==
    (pc = "done" /\ op = "resolve_roi" /\ input.n_vertices # None) =>
        LET n == input.n_vertices[1] IN
        /\ (input.arg.tag = "str" /\ ~HasOverlayExtension(input.arg.path)
              /\ ListsVerticesOf(input.arg.content, n))
              => output = [kind |-> "ok",
                           value |-> Some(ListedMask(input.arg.content.ids, n))]
        /\ (RoiDecodes(input.arg) /\ RoiLoaded(input.arg).shape = <<n>>)
              => output = [kind |-> "ok",
                           value |-> Some(NonZeroMask(RoiLoaded(input.arg)))]
        /\ (RoiDecodes(input.arg) /\ output.kind = "ok")
              => output.value = Some(NonZeroMask(RoiLoaded(input.arg)))

\* A label file that lists vertex 1 of two gave the mask (False, True).
C19_Witness ==
    /\ pc = "done" /\ op = "resolve_roi"
    /\ input.arg.tag = "str" /\ input.arg.path = <<"lh", "cortex", "label">>
    /\ input.arg.content.fmt = "label" /\ input.arg.content.ids = <<1>>
    /\ input.n_vertices = Some(2)
    /\ output.kind = "ok"
    /\ output.value[1].data = <<FALSE, TRUE>>

(***************************************************************************)
(* Claims about the coloring pipeline, continued (SpecColor).              *)
(***************************************************************************)
AnnotErrors ==
    {"annot has values but mesh has", "zero-size array to reduction operation"}

\* C20: a call of prepare_geometry_from_arrays with an overlay and an
\* annotation ends as the call without the annotation does: the same
\* result, no annotation color, no error of the annotation's validation.
C20_OverlayExcludesAnnotation ==
    (pc = "done" /\ op = "prepare_geometry_from_arrays"
        /\ input.args.overlay # None /\ input.args.annot # None) =>
        /\ output = prepare_geometry_from_arrays(
                        [input.args EXCEPT !.annot = None, !.ctab = None],
                        input.uninit)
        /\ output.kind = "raise" => output.msg \notin AnnotErrors

\* A call with an overlay and an annotation of the wrong length returned.
C20_Witness ==
    /\ pc = "done" /\ op = "prepare_geometry_from_arrays"
    /\ input.args.overlay # None /\ input.args.annot # None
    /\ input.args.ctab # None
    /\ input.args.annot[1].shape # <<input.args.vertices.shape[1]>>
    /\ output.kind = "ok"
    /\ output.pos # None

(***************************************************************************)
(* Claims about rescale_overlay and heat_color (SpecColor).                *)
(***************************************************************************)
IsNegative(x) == ~IsNaN(x) /\ x[1] < 0 /\ x[2] > 0

\* C21: rescale_overlay raises ValueError whenever minval or maxval is
\* negative and then leaves every entry of the values array as it was; when
\* maxval equals minval every entry of the result is zero (no entry is the
\* NaN or the infinity of a division by the zero range).
C21_NegativeRaisesZeroRangeGivesZeros ==
    (pc = "done" /\ op = "rescale_overlay") =>
        /\ (IsNegative(input.minval) \/ IsNegative(input.maxval))
              => /\ output.kind = "raise" /\ output.exc = "ValueError"
                 /\ output.after = input.values
        /\ (~IsNegative(input.minval) /\ input.maxval = input.minval)
              => /\ output.kind = "ok"
                 /\ output.values.shape = input.values.shape
                 /\ \A k \in 1..Len(input.values.data) :
                       output.values.data[k] = Num(0)

\* A negative maxval with a minval that would mark an entry raised.
C21_Witness ==
    /\ pc = "done" /\ op = "rescale_overlay"
    /\ input.maxval = Num(-1) /\ input.minval = Num(1)
    /\ \E k \in 1..Len(input.values.data) : input.values.data[k] = <<1, 2>>
    /\ output.kind = "raise"

\* The absolute values of an array; x bounds them from below, from above.
AbsValues(arr) == {Abs(arr.data[k]) : k \in 1..Len(arr.data)}

IsMinAbs(x, arr) == x \in AbsValues(arr) /\ \A y \in AbsValues(arr) : Ge(y, x)

IsMaxAbs(x, arr) == x \in AbsValues(arr) /\ \A y \in AbsValues(arr) : Ge(x, y)

HasNaN(arr) == \E k \in 1..Len(arr.data) : IsNaN(arr.data[k])

\* C22: estimate_overlay_thresholds returns a supplied minval or maxval
\* unchanged; for a value left as None it returns the maximum absolute value
\* and the minimum absolute value (0 when no value is nonzero); and the
\* fmin and fmax that prepare_geometry_from_arrays returns for minval=None,
\* maxval=None are estimate_overlay_thresholds(overlay).
C22_EstimateIsThePipelinesEstimate ==
    /\ (pc = "done" /\ op = "estimate_overlay_thresholds"
          /\ output.kind = "ok") =>
          /\ input.minval # None => output.minval = input.minval[1]
          /\ input.maxval # None => output.maxval = input.maxval[1]
          /\ (input.overlay.tag = "array" /\ ~HasNaN(input.overlay.arr)
                /\ input.overlay.arr.data # <<>>) =>
                /\ input.maxval = None
                      => IsMaxAbs(output.maxval, input.overlay.arr)
                /\ input.minval = None
                      => IF \E x \in AbsValues(input.overlay.arr) : x # Num(0)
                            THEN IsMinAbs(output.minval, input.overlay.arr)
                            ELSE output.minval = Num(0)
    /\ (pc = "done" /\ op = "prepare_geometry_from_arrays"
          /\ output.kind = "ok" /\ input.args.overlay # None
          /\ input.args.minval = None /\ input.args.maxval = None) =>
          LET est == estimate_overlay_thresholds(ArgOf(input.args.overlay),
                                                 None, None)
          IN  /\ est.kind = "ok"
              /\ output.fmin = Some(est.minval)
              /\ output.fmax = Some(est.maxval)

\* The estimate of an overlay with values of both signs, none supplied.
C22_Witness ==
    /\ pc = "done" /\ op = "estimate_overlay_thresholds"
    /\ input.overlay.tag = "array"
    /\ input.overlay.arr.data = <<Num(-2), <<1, 2>>>>
    /\ input.minval = None /\ input.maxval = None
    /\ output.kind = "ok"
    /\ output.minval = <<1, 2>> /\ output.maxval = Num(2)

\* lo <= v < hi
InRange(v, lo, hi) == Ge(v, lo) /\ Lt(v, hi)

\* The ramps of heat_color: red and blue rise from 9/16 at 0 to 1 at 1/3,
\* green rises from 0 at 1/3 to 1 at 1.
RedBlueRamp(a) == Add(<<9, 16>>, Mul(<<21, 16>>, a))

GreenRamp(a) == Sub(Mul(<<3, 2>>, a), <<1, 2>>)

\* The color the six ranges give to v.
PiecewiseHeat(v, row) ==
    /\ IsNaN(v) => row = <<NaN, NaN, NaN>>
    /\ Lt(v, Num(-1)) => row = <<Num(0), Num(1), Num(1)>>
    /\ InRange(v, Num(-1), <<-1, 3>>)
          => row = <<Num(0), GreenRamp(Mul(Num(-1), v)), Num(1)>>
    /\ InRange(v, <<-1, 3>>, Num(0))
          => row = <<Num(0), Num(0), RedBlueRamp(Mul(Num(-1), v))>>
    /\ InRange(v, Num(0), <<1, 3>>) => row = <<RedBlueRamp(v), Num(0), Num(0)>>
    /\ InRange(v, <<1, 3>>, Num(1)) => row = <<Num(1), GreenRamp(v), Num(0)>>
    /\ Ge(v, Num(1)) => row = <<Num(1), Num(1), Num(0)>>

SameNumber(x, y) ==
    x[2] # 0 /\ y[2] # 0 /\ x[1] * y[2] = y[1] * x[2]

\* The largest of the red, green and blue entries of a color table exceeds 1.
TableExceedsOne(ctab) ==
    \E r \in 1..Len(ctab.data) : \E j \in 1..3 : ctab.data[r][j] > 1

\* The red, green and blue of a table row, scaled to 0-1.
TableColor(ctab, label) ==
    [j \in 1..3 |->
        IF TableExceedsOne(ctab) THEN <<ctab.data[label + 1][j], 255>>
        ELSE Num(ctab.data[label + 1][j])]

InUnit(x) == ~IsNaN(x) /\ Ge(x, Num(0)) /\ Ge(Num(1), x)

\* The overlay values of a finished array call as heat_color receives them.
ScaledOverlay(a) ==
    LET est == _estimate_thresholds_from_array(a.overlay[1], a.minval, a.maxval)
    IN  rescale_overlay(mask_sign(a.overlay[1], a.color_mode),
                        est.minval, est.maxval).values

\* C25: every color component of a returned vertex buffer lies in [0, 1] and
\* is not NaN, and a vertex whose overlay value became NaN carries its
\* background color.
C25_ColorsInUnitRange ==
    (pc = "done" /\ op = ArrayPreparer /\ output.kind = "ok") =>
        /\ \A i \in 1..Len(ColorsOf(output)) :
              \A j \in 1..3 : InUnit(ColorsOf(output)[i][j])
        /\ input.args.overlay # None =>
              LET bg == ColorsOf(Prepared(op, BackgroundOnly(op, input.args),
                                          input.uninit))
              IN  \A i \in 1..Len(ColorsOf(output)) :
                     IsNaN(ScaledOverlay(input.args).data[i])
                        => ColorsOf(output)[i] = bg[i]

(* Claims about the interactive viewer (SpecViewer). *)

\* C26: in each rendered frame of the viewer the pipeline is re-run and the
\* shader rebuilt if and only if the panel's (fthresh, fmax) differs from the
\* pair of the previous preparation; after a re-run the stored pair is the
\* panel's pair and the frame is drawn from the vertex buffer derived with
\* it; a frame with unchanged thresholds re-runs nothing.
C26_RerunIffThresholdsChanged ==
    (viewer.phase = "running" /\ viewer.frame.kind = "drawn"
       /\ viewer.config_window # None) =>
        /\ viewer.frame.rerun <=> (viewer.frame.panel # viewer.frame.before)
        /\ viewer.current = viewer.frame.panel
        /\ viewer.prepared_with = viewer.frame.panel
        /\ viewer.frame.rerun =>
              /\ viewer.frame.derived # None
              /\ viewer.frame.derived[1].kind = "ok"
              /\ viewer.shader.vbo = viewer.frame.derived[1].vertexdata
              /\ viewer.shader.ebo = viewer.frame.derived[1].triangles
              /\ viewer.meshdata = viewer.frame.derived[1].vertexdata
              /\ viewer.scene.overlay.tag # "none" =>
                    <<viewer.frame.derived[1].fmin,
                      viewer.frame.derived[1].fmax>> = viewer.frame.panel
        /\ ~viewer.frame.rerun => viewer.frame.derived = None

\* A frame that re-ran the pipeline after the panel moved away from the
\* thresholds the viewer started with.
C26_Witness ==
    /\ viewer.phase = "running" /\ viewer.frame.kind = "drawn"
    /\ viewer.frame.rerun
    /\ viewer.frame.before = <<Some(Num(2)), Some(Num(2))>>
    /\ viewer.frame.panel = <<Some(<<1, 2>>), Some(Num(2))>>
    /\ viewer.scene.overlay.tag = "array"
    /\ viewer.shader.vbo = viewer.meshdata

(* Claims about the rendering functions (SpecSnap). *)

\* C27: a rendering function that obtained a context has called
\* terminate_context exactly once when it returns or lets an exception
\* through, never more than once before, and after terminate_context the
\* module-level offscreen context is None; between rendering calls no
\* context of an earlier call is held.
C27_ContextTerminatedExactlyOnce ==
    /\ snap.stage \in {"created", "rendered", "raised"}
          => snap.terminated = 0 /\ (snap.window \/ snap.offscreen # None)
    /\ snap.stage = "terminated"
          => snap.terminated = 1 /\ snap.offscreen = None /\ ~snap.glfw
    /\ (snap.stage = "left" /\ snap.exc # "RuntimeError"
          /\ ~snap.prepass_raised)
          => snap.terminated = 1 /\ snap.offscreen = None /\ ~snap.glfw
    /\ snap.stage \in {"idle", "left"} => snap.offscreen = None /\ ~snap.glfw

\* A call that held an OSMesa context and let an exception of its try
\* block through.
C27_Witness ==
    /\ snap.stage = "left" /\ snap.exc = "ValueError" /\ ~snap.prepass_raised
    /\ ~snap.window /\ snap.terminated = 1

\* The overlays a snap4 call was given.
SuppliedOverlays ==
    {snap.args.overlays[k] : k \in 1..Len(snap.args.overlays)}
       \ {NoneArg}

\* The pair snap4 is to color with: the caller's value, or the smallest
\* estimated threshold and the largest estimated saturation.
GlobalPair ==
    LET est(o) == estimate_overlay_thresholds(o, None, None)
        lo == {est(o).minval : o \in SuppliedOverlays}
        hi == {est(o).maxval : o \in SuppliedOverlays}
    IN  <<IF snap.args.fthresh # None THEN snap.args.fthresh
          ELSE Some(CHOOSE x \in lo : \A y \in lo : Ge(y, x)),
          IF snap.args.fmax # None THEN snap.args.fmax
          ELSE Some(CHOOSE x \in hi : \A y \in hi : Ge(x, y))>>

\* C28: in snap4 every hemisphere that has an overlay is colored with the
\* same pair: the caller's value where one is given, else the minimum
\* estimated threshold / maximum estimated saturation over the supplied
\* overlays, put in place before either hemisphere is prepared.
C28_BothHemispheresSamePair ==
    (snap.stage # "none" /\ snap.fn = "snap4" /\ SuppliedOverlays # {}) =>
        /\ ~snap.prepass_raised
        /\ \A k \in 1..Len(snap.used) :
              snap.used[k].overlay # NoneArg =>
                 /\ snap.used[k].passed = GlobalPair
                 /\ snap.used[k].colored = GlobalPair

(* Claims about the thresholds and sign flags (SpecColor). *)

\* The thresholds and sign flags of a finished call.
FourValues(result) == <<result.fmin, result.fmax, result.pos, result.neg>>

\* C29: fmin, fmax, pos and neg returned by prepare_geometry_from_arrays do
\* not depend on roi or bg_map: a call that returns gives the four values
\* the same call gives without ROI and without background map, also when the
\* ROI excludes every vertex.
C29_FlagsIndependentOfRoiAndBgMap ==
    (pc = "done" /\ op = ArrayPreparer /\ output.kind = "ok") =>
        LET plain == Prepared(op, [input.args EXCEPT !.roi = None,
                                                     !.bg_map = None],
                              Num(0))
        IN  /\ plain.kind = "ok"
            /\ FourValues(output) = FourValues(plain)

\* An overlay under a ROI that excludes every vertex, over a background map:
\* the positive flag is set all the same.
C29_Witness ==
    /\ pc = "done" /\ op = ArrayPreparer /\ output.kind = "ok"
    /\ input.args.overlay # None /\ input.args.roi # None
    /\ input.args.bg_map # None
    /\ \A k \in 1..Len(input.args.roi[1].data) : ~input.args.roi[1].data[k]
    /\ Len(input.args.roi[1].data) = input.args.vertices.shape[1]
    /\ output.pos = Some(TRUE)

IsPositive(x) == ~IsNaN(x) /\ x[1] > 0 /\ x[2] > 0

\* C30: for non-negative thresholds rescale_overlay preserves sign: every
\* entry of the result that is not NaN is zero or has the sign of the input
\* entry; pos is set only if some input entry is positive with absolute
\* value at least minval, neg only if some input entry is negative with
\* absolute value at least minval.
C30_RescalePreservesSign ==
    (pc = "done" /\ op = "rescale_overlay"
       /\ ~IsNegative(input.minval) /\ ~IsNegative(input.maxval)) =>
        /\ output.kind = "ok"
        /\ \A k \in 1..Len(input.values.data) :
              LET x == input.values.data[k]
                  y == output.values.data[k]
              IN  \/ IsNaN(y)
                  \/ y = Num(0)
                  \/ IsPositive(y) /\ IsPositive(x)
                  \/ IsNegative(y) /\ IsNegative(x)
        /\ output.pos => \E k \in 1..Len(input.values.data) :
                            /\ IsPositive(input.values.data[k])
                            /\ Ge(Abs(input.values.data[k]), input.minval)
        /\ output.neg => \E k \in 1..Len(input.values.data) :
                            /\ IsNegative(input.values.data[k])
                            /\ Ge(Abs(input.values.data[k]), input.minval)

====
